---- MODULE Spec2Model ----
(***************************************************************************)
(* A model of the EMMI collective variable (src/src/isdb/EMMI.cpp):        *)
(* neighbor-list pruning and gathering, the Monte Carlo sampler of the     *)
(* uncertainties sigma_, the collectives issued per step and the replica   *)
(* averaging of the marginal scorer.                                       *)
(*                                                                         *)
(* Real numbers are modelled by integers in fixed units.  Indices of       *)
(* components, atoms and ranks are 0-based as in the source; the tables    *)
(* are sequences, so table[i+1] is the source's table[i].                  *)
(***************************************************************************)
EXTENDS Integers, Sequences, FiniteSets, TLC

(***************************************************************************)
(* Bounds of the model.                                                    *)
(***************************************************************************)
MaxStep == 2
MaxPos == 3
MaxSize == 2
CutDen == 4

(***************************************************************************)
(* Generic helpers.                                                        *)
(***************************************************************************)
Range(s) == {s[i] : i \in DOMAIN s}

RECURSIVE SumSeq(_)
SumSeq(s) == IF s = <<>> THEN 0 ELSE Head(s) + SumSeq(Tail(s))

Min(S) == CHOOSE x \in S : \A y \in S : x <= y
Max(S) == CHOOSE x \in S : \A y \in S : x >= y

\* std::sort on a vector of numbers: ascending, duplicates kept
RECURSIVE SortAsc(_)
SortAsc(s) ==
  IF s = <<>> THEN <<>>
  ELSE LET m == Min(Range(s))
           k == CHOOSE i \in DOMAIN s : s[i] = m
       IN  <<m>> \o SortAsc(SubSeq(s, 1, k - 1) \o SubSeq(s, k + 1, Len(s)))

\* the elements of a set of numbers in ascending order (iteration of a std::map)
RECURSIVE AscSeq(_)
AscSeq(S) == IF S = {} THEN <<>> ELSE <<Min(S)>> \o AscSeq(S \ {Min(S)})

(***************************************************************************)
(* Configuration: the state left by the constructor for the neighbor list. *)
(***************************************************************************)
\* atom types, one per atom (get_GMM_m); two atoms share a type
GMM_m_type_ == <<0, 0, 1>>
\* means of the data GMM components (get_GMM_d), on one axis
GMM_d_m_ == << <<0, 0, 0>>, <<4, 0, 0>>, <<5, 0, 0>> >>
GMM_d_size == Len(GMM_d_m_)
GMM_m_size == Len(GMM_m_type_)
\* prefactors and packed inverse covariance sums, indexed by
\* kaux = type * GMM_d_size + id (calculate_useful_stuff)
pre_fact_ == <<4, 4, 4, 6, 6, 6>>
inv_cov_md_ == << <<5, 0, 0, 5, 0, 5>>, <<5, 0, 0, 5, 0, 5>>,
                  <<5, 0, 0, 5, 0, 5>>, <<5, 0, 0, 5, 0, 5>>,
                  <<5, 0, 0, 5, 0, 5>>, <<5, 0, 0, 5, 0, 5>> >>
\* tabulated exponential: nexp_ samples over [0, dpcutoff_]
dpcutoff_ == 15
\* tab_exp_[i] = exp(-i * dexp_) in fixed point: positive and strictly
\* decreasing, the decay per table step taken as 1/2
tab_exp_ == <<8, 4, 2, 1>>
nexp_ == Len(tab_exp_)
nl_stride_ == 2

Comps == 0..(GMM_d_size - 1)
Atoms == 0..(GMM_m_size - 1)
Positions == {<<x, 0, 0>> : x \in 0..MaxPos}

VARIABLES
  step,          \* getStep()
  exch,          \* getExchangeStep()
  hphase,        \* what the host calls next: "prepare" or "calculate"
  nl_pos,        \* history: getPosition(im) as seen by the last rebuild
  size_,         \* comm.Get_size()
  nl_cutoff_,    \* NL_CUTOFF = nl_cutoff_ / CutDen
  first_time_,   \* per rank
  nl_,           \* per rank: the global neighbor list
  ovmd_der_,     \* per rank: ovmd_der_.size()
  nevals,        \* history: evaluations done so far
  nl_rebuilt,    \* history: the last evaluation called update_neighbor_list
  no_aver_,      \* NO_AVER
  restart,       \* getRestart()
  sigma_,        \* per replica and rank: the uncertainties
  MCaccept_,     \* per replica and rank
  multi_size,    \* multi_sim_comm.Get_size()
  sampled,       \* history: the workers that proposed a move in the last step
  mc,            \* history: the last move of the sampler of replica 0
  do_sampling_,  \* sigma is sampled (calculate_sigma) or not (calculate_marginal)
  pend,          \* per replica and rank: the collectives calculate() has yet to issue
  ovmd_,         \* per replica and rank: the model overlaps
  ov_part,       \* history: per replica and rank, the overlaps of its own stripe
  args,          \* a function of the code taken alone: what it is called with
  result,        \* a function of the code taken alone: what it leaves
  dsigma_set,    \* dsigma_ of this run: 0 or dsigma_
  MCfirst_,      \* first step of calculate_sigma, -1 before it
  acc,           \* the component acc: MCaccept_ over MCtrials
  attempted      \* history: the calls of doMonteCarlo so far

nlVars == <<step, exch, hphase, nl_pos, size_, nl_cutoff_, first_time_, nl_,
            ovmd_der_, nevals, nl_rebuilt>>

mcVars == <<no_aver_, restart, multi_size, sigma_, MCaccept_, sampled, mc>>

accVars == <<dsigma_set, MCfirst_, acc, attempted>>

fnVars == <<args, result, accVars>>

collVars == <<do_sampling_, pend, ovmd_, ov_part, fnVars>>

vars == <<nlVars, mcVars, collVars>>

Ranks == 0..(size_ - 1)

(***************************************************************************)
(* get_exp_overlap: the quadratic form md . inv_cov_md . md (no pbc).      *)
(***************************************************************************)
delta(v1, v2) == <<v2[1] - v1[1], v2[2] - v1[2], v2[3] - v1[3]>>

get_exp_overlap(m_m, d_m, inv) ==
  LET md == delta(d_m, m_m)
      p_x == md[1] * inv[1] + md[2] * inv[2] + md[3] * inv[3]
      p_y == md[1] * inv[2] + md[2] * inv[4] + md[3] * inv[5]
      p_z == md[1] * inv[3] + md[2] * inv[5] + md[3] * inv[6]
  IN  md[1] * p_x + md[2] * p_y + md[3] * p_z

\* a table index that is never beyond the last sample
TabIndexClamped(expov) ==
  LET a == expov * (nexp_ - 1)
      b == 2 * dpcutoff_
  IN  IF (2 * a + b) \div (2 * b) >= nexp_ THEN nexp_ - 1
      ELSE (2 * a + b) \div (2 * b)

\* itab = round(0.5 * expov / dexp_), dexp_ = dpcutoff_ / (nexp_ - 1);
\* round() of a non-negative a/b is floor((2a + b) / 2b)
TabIndex(expov) ==
  LET a == expov * (nexp_ - 1)
      b == 2 * dpcutoff_
  IN  (2 * a + b) \div (2 * b)

kauxOf(id, im) == GMM_m_type_[im + 1] * GMM_d_size + id

itabOf(p, id, im) ==
  TabIndex(get_exp_overlap(GMM_d_m_[id + 1], p[im], inv_cov_md_[kauxOf(id, im) + 1]))

\* the approximate overlap of an in-range atom
ovOf(p, id, im) == pre_fact_[kauxOf(id, im) + 1] * tab_exp_[itabOf(p, id, im) + 1]

(***************************************************************************)
(* update_neighbor_list, the part run for one component id (lines 970 to   *)
(* 1010): the in-range overlaps ov_l in atom order, the map ov_m from      *)
(* overlap value to atom index, the total ov_tot, the sort and the greedy  *)
(* removal of the smallest contributors.                                   *)
(***************************************************************************)
\* ov_m[ov] = im: an atom with an overlap already in the map takes the
\* place of the earlier one
MapAssign(ov_m, ov, im) == (ov :> im) @@ ov_m

\* the cycle on all atoms (lines 976 to 993)
RECURSIVE ScanAtoms(_, _, _, _, _, _)
ScanPush(p, id, im, ov, ov_l, ov_m, ov_tot) ==
  ScanAtoms(p, id, im + 1, Append(ov_l, ov), MapAssign(ov_m, ov, im), ov_tot + ov)

ScanAtoms(p, id, im, ov_l, ov_m, ov_tot) ==
  IF im >= GMM_m_size
  THEN [ov_l |-> ov_l, ov_m |-> ov_m, ov_tot |-> ov_tot]
  ELSE IF itabOf(p, id, im) >= Len(tab_exp_)
       THEN ScanAtoms(p, id, im + 1, ov_l, ov_m, ov_tot)
       ELSE ScanPush(p, id, im, ovOf(p, id, im), ov_l, ov_m, ov_tot)

\* ov_m.erase(key)
MapErase(ov_m, key) == [k \in (DOMAIN ov_m) \ {key} |-> ov_m[k]]

\* res >= ov_cut, with ov_cut = ov_tot * nl_cutoff_ and nl_cutoff_ = cut/CutDen
ReachedCutStrict(res, ov_tot, cut) == res * CutDen > ov_tot * cut

ReachedCut(res, ov_tot, cut) == res * CutDen >= ov_tot * cut

\* the integration loop (lines 1001 to 1007): res += ov_l[i]; stop when
\* res >= ov_cut, else erase the key ov_l[i].  Returns the map that is left.
RECURSIVE Integrate(_, _, _, _, _, _)
IntegrateStep(sorted, m, i, res, ov_tot, cut) ==
  IF ReachedCut(res, ov_tot, cut) THEN m
  ELSE Integrate(sorted, MapErase(m, sorted[i]), i + 1, res, ov_tot, cut)

Integrate(sorted, m, i, res, ov_tot, cut) ==
  IF i > Len(sorted) THEN m
  ELSE IntegrateStep(sorted, m, i, res + sorted[i], ov_tot, cut)

\* for(it = ov_m.begin(); ...) nl_l.push_back(id*GMM_m_size + it->second)
RECURSIVE PushEntries(_, _, _)
PushEntries(id, ov_m, ks) ==
  IF ks = <<>> THEN <<>>
  ELSE <<id * GMM_m_size + ov_m[Head(ks)]>> \o PushEntries(id, ov_m, Tail(ks))

PruneComp(id, sc, cut) ==
  IF Len(sc.ov_l) = 0 THEN <<>>
  ELSE PushEntries(id,
                   Integrate(SortAsc(sc.ov_l), sc.ov_m, 1, 0, sc.ov_tot, cut),
                   AscSeq(DOMAIN Integrate(SortAsc(sc.ov_l), sc.ov_m, 1, 0,
                                           sc.ov_tot, cut)))

\* the entries pushed to nl_l for component id
CompEntries(p, id, cut) ==
  PruneComp(id, ScanAtoms(p, id, 0, <<>>, <<>>, 0), cut)

\* nl_l of one rank: for(id = rank_; id < GMM_d_size; id += size_)
RECURSIVE nl_l_from(_, _, _, _)
nl_l_from(p, id, sz, cut) ==
  IF id >= GMM_d_size THEN <<>>
  ELSE CompEntries(p, id, cut) \o nl_l_from(p, id + sz, sz, cut)

nl_l_of(p, rank, sz, cut) == nl_l_from(p, rank, sz, cut)

(***************************************************************************)
(* The exchange of the local lists (lines 1013 to 1031).                   *)
(***************************************************************************)
\* the local lists of ranks r-1 .. sz-1, as the communicator sees them
RECURSIVE LocalLists(_, _, _, _)
LocalLists(p, r, sz, cut) ==
  IF r > sz THEN <<>>
  ELSE <<nl_l_of(p, r - 1, sz, cut)>> \o LocalLists(p, r + 1, sz, cut)

\* recvcounts after comm.Sum: the local sizes of all ranks
RECURSIVE recvcountsOf(_)
recvcountsOf(blocks) ==
  IF blocks = <<>> THEN <<>>
  ELSE <<Len(Head(blocks))>> \o recvcountsOf(Tail(blocks))

\* disp[0] = 0; rank_size += recvcounts[i]; disp[i+1] = rank_size
RECURSIVE dispFromNoSum(_, _, _)
dispFromNoSum(rc, i, rank_size) ==
  IF i > Len(rc) THEN <<>>
  ELSE <<rank_size>> \o dispFromNoSum(rc, i + 1, rank_size)

RECURSIVE dispFrom(_, _, _)
dispFrom(rc, i, rank_size) ==
  IF i > Len(rc) THEN <<>>
  ELSE <<rank_size>> \o dispFrom(rc, i + 1, rank_size + rc[i])

dispOf(rc) == dispFrom(rc, 1, 0)

\* nl_.resize(tot_size) after nl_.clear(): tot_size zeros
RECURSIVE Zeros(_)
Zeros(n) == IF n = 0 THEN <<>> ELSE <<0>> \o Zeros(n - 1)

\* comm.Allgatherv: the block of rank r lands at offset disp[r]
RECURSIVE WriteBlock(_, _, _, _)
WriteBlock(buf, block, d, j) ==
  IF j > Len(buf) THEN <<>>
  ELSE <<IF j - 1 >= d /\ j - 1 < d + Len(block) THEN block[j - d] ELSE buf[j]>>
       \o WriteBlock(buf, block, d, j + 1)

RECURSIVE GatherInto(_, _, _, _)
GatherInto(buf, blocks, disp, r) ==
  IF r > Len(blocks) THEN buf
  ELSE GatherInto(WriteBlock(buf, blocks[r], disp[r], 1), blocks, disp, r + 1)

GatherLists(blocks, rc) ==
  GatherInto(Zeros(SumSeq(rc)), blocks, dispOf(rc), 1)

Allgatherv(p, sz, cut) ==
  GatherLists(LocalLists(p, 1, sz, cut), recvcountsOf(LocalLists(p, 1, sz, cut)))

(***************************************************************************)
(* The host loop: prepare() and calculate() once per step.                 *)
(***************************************************************************)
\* the sampler's variables, while the neighbor list alone is followed
AccIdle ==
  /\ dsigma_set = 0
  /\ MCfirst_ = -1
  /\ acc = <<>>
  /\ attempted = 0

FnIdle ==
  /\ args = <<>>
  /\ result = <<>>
  /\ AccIdle

CollIdle ==
  /\ do_sampling_ = TRUE
  /\ pend = <<>>
  /\ ovmd_ = <<>>
  /\ ov_part = <<>>
  /\ FnIdle

MCIdle ==
  /\ no_aver_ = FALSE
  /\ restart = FALSE
  /\ multi_size = 1
  /\ sigma_ = <<>>
  /\ MCaccept_ = <<>>
  /\ sampled = {}
  /\ mc = <<>>

NLInit ==
  /\ step \in 0..1
  /\ exch \in BOOLEAN
  /\ hphase = "prepare"
  /\ nl_pos = [im \in Atoms |-> <<0, 0, 0>>]
  /\ size_ \in 1..MaxSize
  /\ nl_cutoff_ \in 1..CutDen
  /\ first_time_ = [r \in Ranks |-> TRUE]
  /\ nl_ = [r \in Ranks |-> <<>>]
  /\ ovmd_der_ = [r \in Ranks |-> 0]
  /\ nevals = 0
  /\ nl_rebuilt = FALSE

\* EMMI::prepare on every rank
prepare ==
  /\ hphase = "prepare"
  /\ first_time_' = [r \in Ranks |-> IF exch THEN TRUE ELSE first_time_[r]]
  /\ hphase' = "calculate"
  /\ UNCHANGED <<step, exch, nl_pos, size_, nl_cutoff_, nl_, ovmd_der_, nevals,
                 nl_rebuilt, mcVars, collVars>>

\* the condition of calculate_overlap, line 1042
NeedUpdate(r) == first_time_[r] \/ exch \/ step % nl_stride_ = 0

first_time_kept(r) == first_time_[r]

first_time_after(r) == IF NeedUpdate(r) THEN FALSE ELSE first_time_[r]

\* EMMI::update_neighbor_list for every position set, worker count and
\* cutoff, tabulated once: what every rank holds in nl_ afterwards
PosSets == [Atoms -> Positions]

\* the position set number i, 0 <= i < (MaxPos+1)^GMM_m_size
PosSetAt(i) == [im \in Atoms |-> <<(i \div ((MaxPos + 1) ^ im)) % (MaxPos + 1), 0, 0>>]

RECURSIVE NLTabulate(_, _, _, _)
NLTabulate(lo, hi, sz, cut) ==
  IF lo = hi THEN (PosSetAt(lo) :> Allgatherv(PosSetAt(lo), sz, cut))
  ELSE NLTabulate(lo, (lo + hi) \div 2, sz, cut)
       @@ NLTabulate((lo + hi) \div 2 + 1, hi, sz, cut)

nl_table ==
  [sz \in 1..MaxSize |-> [cut \in 1..CutDen |->
     NLTabulate(0, (MaxPos + 1) ^ GMM_m_size - 1, sz, cut)]]

update_neighbor_list(p, sz, cut) == nl_table[sz][cut][p]

\* EMMI::calculate_overlap on every rank, up to the rebuild (lines 1042-1045);
\* p holds the positions the host supplies for this evaluation
calculate_overlap ==
  /\ hphase = "calculate"
  /\ IF NeedUpdate(0)
     THEN \E p \in [Atoms -> Positions] :
            /\ nl_' = [r \in Ranks |->
                         IF NeedUpdate(r)
                         THEN update_neighbor_list(p, size_, nl_cutoff_)
                         ELSE nl_[r]]
            /\ ovmd_der_' = [r \in Ranks |->
                         IF NeedUpdate(r)
                         THEN Len(update_neighbor_list(p, size_, nl_cutoff_))
                         ELSE ovmd_der_[r]]
            /\ nl_pos' = p
     ELSE UNCHANGED <<nl_, ovmd_der_, nl_pos>>
  /\ first_time_' = [r \in Ranks |-> first_time_after(r)]
  /\ nl_rebuilt' = NeedUpdate(0)
  /\ nevals' = IF nevals < 2 THEN nevals + 1 ELSE nevals
  /\ hphase' = "advance"
  /\ UNCHANGED <<step, exch, size_, nl_cutoff_, mcVars, collVars>>

\* the host integrates one step: new step counter and exchange flag
HostAdvance ==
  /\ hphase = "advance"
  /\ step < MaxStep
  /\ step' = step + 1
  /\ exch' \in BOOLEAN
  /\ hphase' = "prepare"
  /\ UNCHANGED <<nl_pos, size_, nl_cutoff_, first_time_, nl_, ovmd_der_, nevals,
                 nl_rebuilt, mcVars, collVars>>

NLNext == prepare \/ calculate_overlap \/ HostAdvance

Init == NLInit /\ MCIdle /\ CollIdle
Next == NLNext
Spec == Init /\ [][Next]_vars

(***************************************************************************)
(* Neighbor list: what the claims speak of, stated from the positions.     *)
(***************************************************************************)
InRangeAtoms(p, id) == {im \in Atoms : itabOf(p, id, im) < nexp_}

RECURSIVE SumOv(_, _, _)
SumOv(p, id, S) ==
  IF S = {} THEN 0
  ELSE LET a == CHOOSE x \in S : TRUE IN ovOf(p, id, a) + SumOv(p, id, S \ {a})

TotalMass(p, id) == SumOv(p, id, InRangeAtoms(p, id))

\* the in-range overlaps of component id, ascending
RECURSIVE OvSeq(_, _, _)
OvSeq(p, id, a) ==
  IF a = <<>> THEN <<>> ELSE <<ovOf(p, id, Head(a))>> \o OvSeq(p, id, Tail(a))

SortedOv(p, id) == SortAsc(OvSeq(p, id, AscSeq(InRangeAtoms(p, id))))

\* the number of leading atoms whose running sum is still below the cutoff
LeadingBelow(sorted, total, cut) ==
  Cardinality({i \in 1..Len(sorted) :
                 SumSeq(SubSeq(sorted, 1, i)) * CutDen < total * cut})

\* the running sum at an atom: all in-range overlaps not larger than its own
CumAt(p, id, im) ==
  SumOv(p, id, {a \in InRangeAtoms(p, id) : ovOf(p, id, a) <= ovOf(p, id, im)})

UniqueOv(p, id, im) ==
  \A a \in InRangeAtoms(p, id) : a # im => ovOf(p, id, a) # ovOf(p, id, im)

\* the entries of component id in the list of rank 0
EntryIdx(id) == {j \in DOMAIN nl_[0] : nl_[0][j] \div GMM_m_size = id}
Listed(id) == {nl_[0][j] % GMM_m_size : j \in EntryIdx(id)}

JustRebuilt == hphase = "advance" /\ nl_rebuilt

\* C1: in a rebuild, for each component exactly the leading atoms (ascending
\* overlap) whose running sum is strictly below totalMass * NL_CUTOFF are
\* discarded; every other in-range atom, ties included, is listed exactly once.
C1_AllOthersListedOnce ==
  JustRebuilt =>
    \A id \in Comps :
      LET sorted == SortedOv(nl_pos, id)
          k == LeadingBelow(sorted, TotalMass(nl_pos, id), nl_cutoff_)
      IN  /\ Listed(id) \subseteq InRangeAtoms(nl_pos, id)
          /\ Cardinality(EntryIdx(id)) = Cardinality(Listed(id))
          /\ SortAsc(OvSeq(nl_pos, id, AscSeq(Listed(id))))
               = SubSeq(sorted, k + 1, Len(sorted))

\* C2 as claimed: the retained set of a component has overlap-sum at least
\* NL_CUTOFF * totalMass, and removing any one retained atom brings the
\* retained sum below NL_CUTOFF * totalMass.  Stated for the components whose
\* in-range overlaps are pairwise distinct, where no atom shares a map key.
C2_RetainedReachesCutoff ==
  JustRebuilt =>
    \A id \in Comps :
      (/\ InRangeAtoms(nl_pos, id) # {}
       /\ \A im \in InRangeAtoms(nl_pos, id) : UniqueOv(nl_pos, id, im)) =>
        LET kept == SumOv(nl_pos, id, Listed(id))
            bound == TotalMass(nl_pos, id) * nl_cutoff_
        IN  /\ kept * CutDen >= bound
            /\ \A a \in Listed(id) : (kept - ovOf(nl_pos, id, a)) * CutDen < bound

\* C2 amended: NL_CUTOFF bounds the discarded mass.  An in-range atom whose
\* running sum (all in-range overlaps not larger than its own) is below
\* NL_CUTOFF * totalMass is not listed; a listed atom has a running sum of at
\* least NL_CUTOFF * totalMass; an atom whose overlap no other atom shares is
\* listed exactly when its running sum reaches NL_CUTOFF * totalMass.
C2_CutoffBoundsDiscarded ==
  JustRebuilt =>
    \A id \in Comps : \A im \in InRangeAtoms(nl_pos, id) :
      LET reached == CumAt(nl_pos, id, im) * CutDen
                       >= TotalMass(nl_pos, id) * nl_cutoff_
      IN  /\ im \in Listed(id) => reached
          /\ UniqueOv(nl_pos, id, im) => (im \in Listed(id) <=> reached)

\* a rebuild that discarded one atom of a component and kept another, with a
\* cutoff above one half
C2_Witness ==
  /\ JustRebuilt
  /\ 2 * nl_cutoff_ > CutDen
  /\ \E id \in Comps : \E a, b \in InRangeAtoms(nl_pos, id) :
       /\ a \in Listed(id) /\ b \notin Listed(id)
       /\ UniqueOv(nl_pos, id, a) /\ UniqueOv(nl_pos, id, b)

\* the local lists of the ranks for every position set, worker count and
\* cutoff, tabulated once
RECURSIVE LocalTabulate(_, _, _, _)
LocalTabulate(lo, hi, sz, cut) ==
  IF lo = hi THEN (PosSetAt(lo) :> LocalLists(PosSetAt(lo), 1, sz, cut))
  ELSE LocalTabulate(lo, (lo + hi) \div 2, sz, cut)
       @@ LocalTabulate((lo + hi) \div 2 + 1, hi, sz, cut)

local_table ==
  [sz \in 1..MaxSize |-> [cut \in 1..CutDen |->
     LocalTabulate(0, (MaxPos + 1) ^ GMM_m_size - 1, sz, cut)]]

\* the local list retained by rank r
LocalOf(r) == local_table[size_][nl_cutoff_][nl_pos][r + 1]

\* the local lists of all ranks, one after the other in rank order
RECURSIVE ConcatLocal(_)
ConcatLocal(r) == IF r >= size_ THEN <<>> ELSE LocalOf(r) \o ConcatLocal(r + 1)

RECURSIVE SumLocalLen(_)
SumLocalLen(r) == IF r >= size_ THEN 0 ELSE Len(LocalOf(r)) + SumLocalLen(r + 1)

\* C6: after every rebuild every worker holds the same global list, the
\* concatenation in rank order of the workers' local lists, of length the sum
\* of the local lengths, and ovmd_der_ has as many slots as nl_ has entries.
C6_SameListEverywhere ==
  nevals > 0 =>
    \A r \in Ranks :
      /\ nl_[r] = ConcatLocal(0)
      /\ Len(nl_[r]) = SumLocalLen(0)
      /\ nl_[r] = nl_[0]
      /\ ovmd_der_[r] = Len(nl_[r])

\* a rebuild on several workers, each of which retained pairs of its own
C6_Witness ==
  /\ JustRebuilt
  /\ size_ > 1
  /\ \A r \in Ranks : Len(LocalOf(r)) > 0

\* C7: an evaluation rebuilds the list exactly when it is the first one, the
\* step is an exchange step, or step modulo NL_STRIDE is 0; otherwise list and
\* length stay as they were; a rebuild installs the list built from the
\* current positions alone.
C7_RebuildTrigger ==
  [][hphase = "calculate" =>
       /\ nl_rebuilt' <=> (nevals = 0 \/ exch \/ step % nl_stride_ = 0)
       /\ ~nl_rebuilt' => (nl_' = nl_ /\ ovmd_der_' = ovmd_der_)
       /\ nl_rebuilt' =>
            \A r \in Ranks :
              nl_'[r] = update_neighbor_list(nl_pos', size_, nl_cutoff_)
    ]_vars

\* an evaluation after the first one that left a non-empty list alone
C7_Witness ==
  /\ hphase = "advance"
  /\ ~nl_rebuilt
  /\ nevals > 1
  /\ Len(nl_[0]) > 0

(***************************************************************************)
(* Sampled mode: the state left by the constructor (lines 434 to 492).     *)
(***************************************************************************)
\* self overlaps of the data components (get_self_overlap)
ovdd_ == <<1, 1, 1>>
ov_base == SortAsc(ovdd_)[Len(ovdd_) \div 2 + 1]
ov_max == Max(Range(ovdd_))
\* DSIGMA, SIGMA0, PRIOR, SCALE, MC_STRIDE and MC_CUT as given on the input line
DSIGMA == 2
SIGMA0 == 1
prior_ == 1
scale_ == 1
MCstride_ == 2
MCcut_ == 1
\* kbt_ in the energy unit of the model
kbt_ == 2
dsigma_ == DSIGMA * ov_base
\* experimental errors (read_exp_errors) and uncertainties of the mean
exp_err == <<2, 2, 4>>
sigma_mean_ == <<1, 1, 1>>
sigma_min_ == exp_err
sigma_max_ == [i \in 1..GMM_d_size |-> 2 * ov_max + exp_err[i] + dsigma_]

\* std::max(sigma_min_[i], std::min(sigma_max_[i], sigma_ini*ov_base))
sigma_ini_unclamped(i) == SIGMA0 * ov_base

sigma_ini_of(i) ==
  LET v == SIGMA0 * ov_base
      lo == IF sigma_max_[i] < v THEN sigma_max_[i] ELSE v
  IN  IF sigma_min_[i] > lo THEN sigma_min_[i] ELSE lo

sigma_fresh == [i \in 1..GMM_d_size |-> sigma_ini_of(i)]

\* prepareCollectiveMC: j is a neighbor of i when |m_i - m_j| <= MCcut_
dist2(a, b) ==
  (a[1] - b[1]) * (a[1] - b[1]) + (a[2] - b[2]) * (a[2] - b[2])
    + (a[3] - b[3]) * (a[3] - b[3])

MCneigh_ ==
  [i \in 1..GMM_d_size |->
     AscSeq({j \in Comps : dist2(GMM_d_m_[i], GMM_d_m_[j + 1]) <= MCcut_ * MCcut_})]

(***************************************************************************)
(* The status file: print_status writes every sigma rounded to the nearest *)
(* value its format ("%6.3e") can print, read_status reads the records in  *)
(* order.  The printable values of the model are the multiples of FmtQ.    *)
(***************************************************************************)
FmtQ == 3
Fmt(x) == ((2 * x + FmtQ) \div (2 * FmtQ)) * FmtQ

print_record(sig) == [i \in 1..GMM_d_size |-> Fmt(sig[i])]

\* read_status: every record read overwrites sigma_
read_status_first(file, sig) == IF file = <<>> THEN sig ELSE Head(file)

RECURSIVE read_status(_, _)
read_status(file, sig) ==
  IF file = <<>> THEN sig ELSE read_status(Tail(file), Head(file))

\* records a previous run can have written
StatusRecords ==
  {print_record(sigma_min_), print_record(sigma_fresh), print_record(sigma_max_)}

StatusFiles ==
  {<<r>> : r \in StatusRecords} \cup {<<q, r>> : q, r \in StatusRecords}

(***************************************************************************)
(* doAccept and doMonteCarlo (lines 599 to 673).                           *)
(***************************************************************************)
\* 1000 * ln(n), n = 1..130
Ln1000 == <<
  0, 693, 1099, 1386, 1609, 1792, 1946, 2079, 2197, 2303, 2398, 2485, 2565,
  2639, 2708, 2773, 2833, 2890, 2944, 2996, 3045, 3091, 3135, 3178, 3219, 3258,
  3296, 3332, 3367, 3401, 3434, 3466, 3497, 3526, 3555, 3584, 3611, 3638, 3664,
  3689, 3714, 3738, 3761, 3784, 3807, 3829, 3850, 3871, 3892, 3912, 3932, 3951,
  3970, 3989, 4007, 4025, 4043, 4060, 4078, 4094, 4111, 4127, 4143, 4159, 4174,
  4190, 4205, 4220, 4234, 4248, 4263, 4277, 4290, 4304, 4317, 4331, 4344, 4357,
  4369, 4382, 4394, 4407, 4419, 4431, 4443, 4454, 4466, 4477, 4489, 4500, 4511,
  4522, 4533, 4543, 4554, 4564, 4575, 4585, 4595, 4605, 4615, 4625, 4635, 4644,
  4654, 4663, 4673, 4682, 4691, 4700, 4710, 4718, 4727, 4736, 4745, 4754, 4762,
  4771, 4779, 4787, 4796, 4804, 4812, 4820, 4828, 4836, 4844, 4852, 4860, 4868 >>

\* delta < 0: accept; else accept when the random number s is below
\* exp(-delta): always for delta = 0, and as `below` tells for delta > 0
doAcceptNever(oldE, newE, below) == FALSE

doAccept(oldE, newE, below) ==
  IF newE - oldE < 0 THEN TRUE
  ELSE IF newE - oldE = 0 THEN TRUE ELSE below

\* check boundaries (lines 647 and 648)
ReflectClamp(new_s, lo, hi) == IF new_s > hi THEN hi ELSE IF new_s < lo THEN lo ELSE new_s

Reflect(new_s, lo, hi) ==
  LET a == IF new_s > hi THEN 2 * hi - new_s ELSE new_s
  IN  IF a < lo THEN 2 * lo - a ELSE a

\* energy of component i with uncertainty s, in 1/1000 of the energy unit:
\* pre_fact / s2 + kbt_ * prior_ * log(s2), pre_fact = 0.5 kbt_ dev^2
MCene(ovmd, i, s) ==
  LET dev == scale_ * ovmd[i] - ovdd_[i]
      s2 == sigma_mean_[i] * sigma_mean_[i] + s * s
  IN  ((kbt_ * dev * dev * 1000) \div (2 * s2)) + kbt_ * prior_ * Ln1000[s2]

\* the cycle on the neighbors of nGMM (lines 635 to 655)
RECURSIVE MCcycle(_, _, _, _, _, _, _, _)
MCcycle(sig, ovmd, neigh, shift, j, old_ene, new_ene, new_sigma) ==
  IF j > Len(neigh)
  THEN [old_ene |-> old_ene, new_ene |-> new_ene, new_sigma |-> new_sigma]
  ELSE LET i == neigh[j] + 1
           new_s == Reflect(sig[i] + shift, sigma_min_[i], sigma_max_[i])
       IN  MCcycle(sig, ovmd, neigh, shift, j + 1,
                   old_ene + MCene(ovmd, i, sig[i]),
                   new_ene + MCene(ovmd, i, new_s),
                   Append(new_sigma, new_s))

\* sigma_[MCneigh_[nGMM][j]] = new_sigma[j]
Commit(sig, neigh, new_sigma) ==
  [i \in 1..GMM_d_size |->
     IF \E j \in 1..Len(neigh) : neigh[j] + 1 = i
     THEN new_sigma[CHOOSE j \in 1..Len(neigh) : neigh[j] + 1 = i]
     ELSE sig[i]]

\* Am I a sampling replica? (lines 624 to 626)
do_sample_all(rep, rank) == rank = 0

do_sample(rep, rank) ==
  \/ (~no_aver_ /\ rank = 0)
  \/ (no_aver_ /\ rank = 0 /\ rep = 0)

ZeroSigma == [i \in 1..GMM_d_size |-> 0]

\* the move of a sampling worker: the cycle and the verdict of doAccept
MCmove(sig, d) ==
  LET c == MCcycle(sig, d.ovmd, MCneigh_[d.nGMM + 1], d.shift, 1, 0, 0, <<>>)
  IN  [sigma |-> sig, nGMM |-> d.nGMM, shift |-> d.shift, old_ene |-> c.old_ene,
       new_ene |-> c.new_ene, new_sigma |-> c.new_sigma,
       accept |-> doAccept(c.old_ene, c.new_ene, d.below)]

\* doMonteCarlo on one worker before the communication (lines 616 to 666)
MClocal(rep, rank, d) ==
  IF do_sample(rep, rank)
  THEN LET m == MCmove(sigma_[rep][rank], d)
       IN  IF m.accept
           THEN [sigma |-> Commit(sigma_[rep][rank], MCneigh_[d.nGMM + 1], m.new_sigma),
                 acc |-> MCaccept_[rep][rank] + 1]
           ELSE [sigma |-> sigma_[rep][rank], acc |-> MCaccept_[rep][rank]]
  ELSE [sigma |-> ZeroSigma, acc |-> 0]

Replicas == 0..(multi_size - 1)

\* doMonteCarlo before the communication on the rank 0 of replicas rep..n-1
RECURSIVE LeaderLocals(_, _, _)
LeaderLocals(draws, rep, n) ==
  IF rep >= n THEN <<>>
  ELSE <<MClocal(rep, 0, IF do_sample(rep, 0) THEN draws[rep] ELSE <<>>)>>
         \o LeaderLocals(draws, rep + 1, n)

RECURSIVE SumSigma(_, _)
SumSigma(loc, i) ==
  IF loc = <<>> THEN 0 ELSE Head(loc).sigma[i] + SumSigma(Tail(loc), i)

RECURSIVE SumAcc(_)
SumAcc(loc) == IF loc = <<>> THEN 0 ELSE Head(loc).acc + SumAcc(Tail(loc))

\* multi_sim_comm.Sum on the rank 0 of every replica (lines 668 to 671)
MCafter(loc, rep, rank) ==
  IF rank = 0
  THEN IF no_aver_
       THEN [sigma |-> [i \in 1..GMM_d_size |-> SumSigma(loc, i)], acc |-> SumAcc(loc)]
       ELSE loc[rep + 1]
  ELSE MClocal(rep, rank, <<>>)

\* what the random generator and the overlap engine hand to one move
Shifts == (-dsigma_)..dsigma_
Draws(ovmds) ==
  [nGMM : Comps, shift : Shifts, below : BOOLEAN, ovmd : ovmds]

\* the replicas whose rank 0 uses what it drew
Samplers == {rep \in Replicas : do_sample(rep, 0)}

\* the state every worker is left in, the sums made
MCcommit(loc) ==
  /\ sigma_' = [rep \in Replicas |-> [rank \in Ranks |-> MCafter(loc, rep, rank).sigma]]
  /\ MCaccept_' = [rep \in Replicas |-> [rank \in Ranks |-> MCafter(loc, rep, rank).acc]]
  /\ sampled' = {w \in Replicas \X Ranks : do_sample(w[1], w[2])}

\* doMonteCarlo on every worker of every replica
doMonteCarlo(draws) == MCcommit(LeaderLocals(draws, 0, multi_size))

\* the constructor in sampled mode, with or without a status file to reload
SampledInit(nrep) ==
  /\ no_aver_ \in BOOLEAN
  /\ restart \in BOOLEAN
  /\ multi_size = nrep
  /\ size_ \in 1..MaxSize
  /\ \E file \in StatusFiles :
       sigma_ = [rep \in Replicas |-> [rank \in Ranks |->
                   IF restart THEN read_status(file, sigma_fresh) ELSE sigma_fresh]]
  /\ MCaccept_ = [rep \in Replicas |-> [rank \in Ranks |-> 0]]
  /\ sampled = {}

\* the neighbor list's variables, while the sampler alone is followed
NLIdle ==
  /\ nl_pos = [im \in Atoms |-> <<0, 0, 0>>]
  /\ nl_cutoff_ = 1
  /\ first_time_ = <<>>
  /\ nl_ = <<>>
  /\ ovmd_der_ = <<>>
  /\ nevals = 0
  /\ nl_rebuilt = FALSE

nlIdleVars == <<nl_pos, nl_cutoff_, first_time_, nl_, ovmd_der_, nevals, nl_rebuilt>>

(***************************************************************************)
(* The sampler on all workers of two replicas, step by step.               *)
(***************************************************************************)
MCInit ==
  /\ SampledInit(2)
  /\ step \in 0..1
  /\ exch \in BOOLEAN
  /\ hphase = "calculate"
  /\ mc = <<>>
  /\ NLIdle
  /\ CollIdle

\* the model overlap held when the move is made
OvmdNow == {<<3, 0, 1>>}

\* EMMI::calculate_sigma on every worker: the Monte Carlo step (line 1241)
calculate_sigma ==
  /\ hphase = "calculate"
  /\ IF dsigma_ > 0 /\ step % MCstride_ = 0 /\ ~exch
     THEN \E draws \in [Samplers -> Draws(OvmdNow)] : doMonteCarlo(draws)
     ELSE UNCHANGED <<sigma_, MCaccept_, sampled>>
  /\ hphase' = "advance"
  /\ UNCHANGED <<step, exch, size_, no_aver_, restart, multi_size, mc, nlIdleVars, collVars>>

MCHostAdvance ==
  /\ hphase = "advance"
  /\ step < MaxStep
  /\ step' = step + 1
  /\ exch' \in BOOLEAN
  /\ hphase' = "calculate"
  /\ UNCHANGED <<size_, mcVars, nlIdleVars, collVars>>

MCNext == calculate_sigma \/ MCHostAdvance

SpecMC == MCInit /\ [][MCNext]_vars

(***************************************************************************)
(* One sampling worker alone, move after move, with the move recorded.     *)
(***************************************************************************)
MaxMoves == 2

MoveInit ==
  /\ SampledInit(1)
  /\ size_ = 1
  /\ step = 0
  /\ exch = FALSE
  /\ hphase = "calculate"
  /\ mc = [n |-> 0]
  /\ NLIdle
  /\ CollIdle

OvmdAny == {<<1, 1, 1>>, <<3, 0, 1>>}

\* doMonteCarlo on the sampling worker, the move kept in mc
SampleMove ==
  /\ mc.n < MaxMoves
  /\ \E d \in Draws(OvmdAny) :
       /\ doMonteCarlo([q \in Samplers |-> d])
       /\ mc' = [n |-> mc.n + 1, move |-> MCmove(sigma_[0][0], d)]
  /\ UNCHANGED <<step, exch, hphase, size_, no_aver_, restart, multi_size, nlIdleVars, collVars>>

MoveNext == SampleMove

SpecMove == MoveInit /\ [][MoveNext]_vars

(***************************************************************************)
(* Claims on the sampler.                                                  *)
(***************************************************************************)
InBounds(sig, i) == sigma_min_[i] <= sig[i] /\ sig[i] <= sigma_max_[i]

MCDone == sampled # {}

C4_GroupHoldsOneSigma ==
  MCDone => \A rep \in Replicas : \A r1, r2 \in Ranks :
              sigma_[rep][r1] = sigma_[rep][r2]

\* C4 amended: the workers that propose moves are the rank 0 of every replica
\* when averaging is on and the rank 0 of replica 0 with NO_AVER; after a
\* Monte Carlo step every worker of another rank holds zero, and with NO_AVER
\* the rank 0 of every replica holds the vector and the acceptance counter of
\* the sampler.
C4_DesignatedSampler ==
  MCDone =>
    /\ sampled = IF no_aver_ THEN {<<0, 0>>} ELSE {<<rep, 0>> : rep \in Replicas}
    /\ \A rep \in Replicas : \A rank \in Ranks \ {0} :
         sigma_[rep][rank] = ZeroSigma /\ MCaccept_[rep][rank] = 0
    /\ no_aver_ => \A rep \in Replicas :
                     /\ sigma_[rep][0] = sigma_[0][0]
                     /\ MCaccept_[rep][0] = MCaccept_[0][0]

\* C4 witness: with NO_AVER, after an accepted move, the second replica's
\* rank 0 holds the sampler's moved vector and the workers of rank 1 zero.
C4_Witness ==
  /\ no_aver_ /\ MCDone /\ size_ > 1 /\ ~restart
  /\ MCaccept_[1][0] > 0
  /\ sigma_[1][0] = sigma_[0][0] /\ sigma_[0][0] # sigma_fresh
  /\ sigma_[0][1] = ZeroSigma

Moved == mc.n > 0
InNeigh(i, nGMM) == \E j \in 1..Len(MCneigh_[nGMM + 1]) : MCneigh_[nGMM + 1][j] + 1 = i

\* C8: a move whose summed energy change is negative is accepted; an accepted
\* move sets the sigma of every component of the neighborhood to its proposed
\* value, leaves the others and adds one to the acceptance counter; a
\* rejected move leaves the sigma vector and the counter.
C8_MoveCommitsCluster ==
  [][mc'.n = mc.n + 1 =>
       LET m == mc'.move
           neigh == MCneigh_[m.nGMM + 1]
       IN  /\ m.sigma = sigma_[0][0]
           /\ m.new_ene < m.old_ene => m.accept
           /\ m.accept =>
                /\ \A j \in 1..Len(neigh) : sigma_'[0][0][neigh[j] + 1] = m.new_sigma[j]
                /\ \A i \in 1..GMM_d_size :
                     ~InNeigh(i, m.nGMM) => sigma_'[0][0][i] = sigma_[0][0][i]
                /\ MCaccept_'[0][0] = MCaccept_[0][0] + 1
           /\ ~m.accept => sigma_' = sigma_ /\ MCaccept_' = MCaccept_
  ]_vars

\* C8 witness: an accepted move of a cluster of two components that lowers
\* the energy and leaves the third component.
C8_Witness ==
  /\ Moved /\ mc.move.accept /\ mc.move.new_ene < mc.move.old_ene
  /\ Len(mc.move.new_sigma) = 2 /\ mc.move.shift # 0
  /\ MCaccept_[0][0] = mc.n
  /\ sigma_[0][0][1] = mc.move.sigma[1]

\* C9: for a component of the cluster whose sigma is in bounds, the proposed
\* value is sigma + shift when that is in bounds and its mirror image
\* 2*bound - (sigma + shift) at the violated bound otherwise, and the
\* proposed value is in bounds.
C9_MirrorAtBound ==
  Moved =>
    LET m == mc.move
        neigh == MCneigh_[m.nGMM + 1]
    IN  \A j \in 1..Len(neigh) :
          LET i == neigh[j] + 1
              p == m.sigma[i] + m.shift
          IN  InBounds(m.sigma, i) =>
                /\ p > sigma_max_[i] => m.new_sigma[j] = 2 * sigma_max_[i] - p
                /\ p < sigma_min_[i] => m.new_sigma[j] = 2 * sigma_min_[i] - p
                /\ (sigma_min_[i] <= p /\ p <= sigma_max_[i]) => m.new_sigma[j] = p
                /\ sigma_min_[i] <= m.new_sigma[j] /\ m.new_sigma[j] <= sigma_max_[i]

\* C9 witness: one move mirrors strictly inside the bounds, a component at
\* its lower bound moved by a shift that is not the largest one.
C9_Witness ==
  /\ Moved
  /\ \E j \in 1..Len(mc.move.new_sigma) :
       LET i == MCneigh_[mc.move.nGMM + 1][j] + 1
       IN  /\ InBounds(mc.move.sigma, i)
           /\ mc.move.sigma[i] + mc.move.shift < sigma_min_[i]
           /\ mc.move.new_sigma[j] = mc.move.sigma[i] + 1

(***************************************************************************)
(* The collectives calculate() issues in one step, in the order of the     *)
(* code, on one worker.                                                    *)
(***************************************************************************)
Op(c, what) == [comm |-> c, what |-> what]

\* nrep_ after comm.Sum(&nrep_,1) (lines 370 to 382): the same on every rank
nrep_ == IF no_aver_ THEN 1 ELSE multi_size

\* update_neighbor_list (lines 1013 to 1029)
NLCollectives == <<Op("comm", "Sum recvcounts"), Op("comm", "Allgatherv nl_")>>

\* calculate_overlap, ft the worker's first_time_ (lines 1042 to 1068)
OverlapCollectives(ft) ==
  (IF ft \/ exch \/ step % nl_stride_ = 0 THEN NLCollectives ELSE <<>>)
    \o (IF size_ > 1
        THEN <<Op("comm", "Sum ovmd_"), Op("comm", "Sum ovmd_der_")>>
        ELSE <<>>)

\* communication between multi replicas (lines 668 to 671)
MCSumIssuedBySampler(rep, rank) == no_aver_ /\ do_sample(rep, rank)

MCSumIssued(rep, rank) == no_aver_ /\ rank = 0

MonteCarloCollectives(rep, rank) ==
  IF MCSumIssued(rep, rank)
  THEN <<Op("multi", "Sum sigma_"), Op("multi", "Sum MCaccept_")>>
  ELSE <<>>

\* atom_der_ and virial (lines 1229 to 1232 and 1322 to 1325)
DerivativeCollectives ==
  IF size_ > 1
  THEN <<Op("comm", "Sum atom_der_"), Op("comm", "Sum virial")>>
  ELSE <<>>

\* calculate_sigma (lines 1164 to 1241)
SigmaCollectives(rep, rank) ==
  (IF rank = 0 /\ ~no_aver_ /\ nrep_ > 1
   THEN <<Op("multi", "Sum ovmd_"), Op("multi", "Sum inv_s2")>>
   ELSE <<>>)
    \o (IF size_ > 1
        THEN <<Op("comm", "Sum ovmd_"), Op("comm", "Sum inv_s2")>>
        ELSE <<>>)
    \o DerivativeCollectives
    \o (IF dsigma_ > 0 /\ step % MCstride_ = 0 /\ ~exch
        THEN MonteCarloCollectives(rep, rank)
        ELSE <<>>)

\* calculate_marginal (lines 1269 to 1325)
MarginalCollectives(rep, rank) ==
  (IF ~no_aver_ /\ nrep_ > 1
   THEN (IF rank = 0 THEN <<Op("multi", "Sum ovmd_")>> ELSE <<>>)
          \o <<Op("comm", "Sum ovmd_")>>
   ELSE <<>>)
    \o DerivativeCollectives

\* calculate (lines 1107 to 1119)
CalculateCollectives(rep, rank, ft) ==
  OverlapCollectives(ft)
    \o (IF do_sampling_ THEN SigmaCollectives(rep, rank)
        ELSE MarginalCollectives(rep, rank))

AllReplicas == {0, 1}

CollInit ==
  /\ step \in 0..1
  /\ exch \in BOOLEAN
  /\ hphase = "prepare"
  /\ size_ \in 1..MaxSize
  /\ multi_size \in 1..2
  /\ no_aver_ \in BOOLEAN
  /\ do_sampling_ \in BOOLEAN
  /\ first_time_ = [rep \in Replicas |-> [rank \in Ranks |-> TRUE]]
  /\ pend = [rep \in Replicas |-> [rank \in Ranks |-> <<>>]]
  /\ ovmd_ = <<>>
  /\ ov_part = <<>>
  /\ FnIdle
  /\ restart = FALSE
  /\ sigma_ = <<>>
  /\ MCaccept_ = <<>>
  /\ sampled = {}
  /\ mc = <<>>
  /\ nl_pos = [im \in Atoms |-> <<0, 0, 0>>]
  /\ nl_cutoff_ = 1
  /\ nl_ = <<>>
  /\ ovmd_der_ = <<>>
  /\ nevals = 0
  /\ nl_rebuilt = FALSE

collFrame == <<size_, multi_size, no_aver_, do_sampling_, ovmd_, ov_part, restart,
               sigma_, MCaccept_, sampled, mc, nl_pos, nl_cutoff_, nl_,
               ovmd_der_, nevals, nl_rebuilt, fnVars>>

\* the host calls prepare() and calculate() on every worker: each runs up to
\* its first collective, and what it will issue is settled by what it holds
CollEnter ==
  /\ hphase = "prepare"
  /\ pend' = [rep \in Replicas |-> [rank \in Ranks |->
                CalculateCollectives(rep, rank, first_time_[rep][rank] \/ exch)]]
  /\ first_time_' = [rep \in Replicas |-> [rank \in Ranks |->
                       IF first_time_[rep][rank] \/ exch \/ step % nl_stride_ = 0
                       THEN FALSE ELSE first_time_[rep][rank]]]
  /\ hphase' = "calculate"
  /\ UNCHANGED <<step, exch, collFrame>>

Waiting(rep, rank) == pend[rep][rank] # <<>>

\* a collective on comm completes when every rank of the replica is in it
CommReady(rep) ==
  /\ rep \in Replicas
  /\ \A rank \in Ranks :
       /\ Waiting(rep, rank)
       /\ Head(pend[rep][rank]).comm = "comm"
       /\ Head(pend[rep][rank]) = Head(pend[rep][0])

CommCollective(rep) ==
  /\ hphase = "calculate"
  /\ CommReady(rep)
  /\ pend' = [pend EXCEPT ![rep] = [rank \in Ranks |-> Tail(pend[rep][rank])]]
  /\ UNCHANGED <<step, exch, hphase, first_time_, collFrame>>

\* a collective on multi_sim_comm completes when the rank 0 of every replica
\* is in it
MultiReady ==
  \A rep \in Replicas :
    /\ Waiting(rep, 0)
    /\ Head(pend[rep][0]).comm = "multi"
    /\ Head(pend[rep][0]) = Head(pend[0][0])

MultiCollective ==
  /\ hphase = "calculate"
  /\ MultiReady
  /\ pend' = [rep \in Replicas |-> [pend[rep] EXCEPT ![0] = Tail(pend[rep][0])]]
  /\ UNCHANGED <<step, exch, hphase, first_time_, collFrame>>

AllDone == \A rep \in Replicas : \A rank \in Ranks : ~Waiting(rep, rank)

CollAdvance ==
  /\ hphase = "calculate"
  /\ AllDone
  /\ step < MaxStep
  /\ step' = step + 1
  /\ exch' \in BOOLEAN
  /\ hphase' = "prepare"
  /\ UNCHANGED <<pend, first_time_, collFrame>>

CollNext ==
  \/ CollEnter
  \/ \E rep \in AllReplicas : CommCollective(rep)
  \/ MultiCollective
  \/ CollAdvance

\* a collective every participant has entered completes
SpecColl ==
  /\ CollInit /\ [][CollNext]_vars
  /\ \A rep \in AllReplicas : WF_vars(CommCollective(rep))
  /\ WF_vars(MultiCollective)

(***************************************************************************)
(* Claims on the collectives.                                              *)
(***************************************************************************)
OnComm(c, seq) == SelectSeq(seq, LAMBDA o : o.comm = c)

SameSequences ==
  /\ \A rep \in Replicas : \A rank \in Ranks :
       OnComm("comm", pend[rep][rank]) = OnComm("comm", pend[rep][0])
  /\ \A rep \in Replicas : \A rank \in Ranks \ {0} :
       OnComm("multi", pend[rep][rank]) = <<>>
  /\ \A rep \in Replicas :
       OnComm("multi", pend[rep][0]) = OnComm("multi", pend[0][0])

SomeCollectiveReady == MultiReady \/ \E rep \in Replicas : CommReady(rep)

\* C5: all the workers of a replica have the same collectives on comm left
\* to issue, all the rank 0 workers the same collectives on multi_sim_comm;
\* while a worker waits in a collective some collective has all its
\* participants; and every step calculate() has started completes on every
\* worker.
C5_StepCompletes ==
  /\ [](SameSequences /\ (hphase = "calculate" /\ ~AllDone => SomeCollectiveReady))
  /\ (hphase = "calculate") ~> AllDone

\* C5 witness: sampled mode with NO_AVER, two replicas of two workers: the
\* rank 0 of replica 0 waits in the sum of sigma_ across the replicas while
\* the workers of replica 1 are still in an earlier sum on comm.
C5_Witness ==
  /\ hphase = "calculate" /\ do_sampling_ /\ no_aver_
  /\ multi_size = 2 /\ size_ = 2
  /\ Waiting(0, 0) /\ Head(pend[0][0]) = Op("multi", "Sum sigma_")
  /\ ~Waiting(0, 1)
  /\ Waiting(1, 1) /\ Head(pend[1][1]) = Op("comm", "Sum ovmd_")

(***************************************************************************)
(* Marginal mode: the model overlaps through the sums of calculate_overlap *)
(* and calculate_marginal.  The overlaps are even numbers, so that the     *)
(* product with escale = 1/nrep_ is exact for one and two replicas.        *)
(***************************************************************************)
\* what the loop over its stripe of nl_ leaves in ovmd_ on one worker
OvParts == {<<0, 0, 0>>, <<2, 0, 4>>, <<0, 2, 2>>}

ZeroOv == [i \in 1..GMM_d_size |-> 0]

RECURSIVE SumRanks(_, _, _, _)
SumRanks(ov, rep, rank, i) ==
  IF rank >= size_ THEN 0 ELSE ov[rep][rank][i] + SumRanks(ov, rep, rank + 1, i)

\* comm.Sum(&ovmd_[0], ovmd_.size()) as every rank of the replica sees it
CommSum(ov, rep) == [i \in 1..GMM_d_size |-> SumRanks(ov, rep, 0, i)]

RECURSIVE SumLeaders(_, _, _)
SumLeaders(ov, rep, i) ==
  IF rep >= multi_size THEN 0 ELSE ov[rep][0][i] + SumLeaders(ov, rep + 1, i)

\* multi_sim_comm.Sum(&ovmd_[0], ovmd_.size()) as every rank 0 sees it
MultiSum(ov) == [i \in 1..GMM_d_size |-> SumLeaders(ov, 0, i)]

\* ovmd_[i] *= escale
Rescale(v) == [i \in 1..GMM_d_size |-> v[i] \div nrep_]

\* the else branch of rank_==0 (line 1274)
NonLeaderKeeps(v) == v

NonLeaderOvmd(v) == ZeroOv

\* lines 1269 to 1277, before comm.Sum
AverageLocal(ov) ==
  [rep \in Replicas |-> [rank \in Ranks |->
     IF rank = 0 THEN Rescale(MultiSum(ov)) ELSE NonLeaderOvmd(ov[rep][rank])]]

MargInit ==
  /\ hphase = "overlap"
  /\ size_ \in 1..MaxSize
  /\ multi_size \in 1..2
  /\ no_aver_ \in BOOLEAN
  /\ do_sampling_ = FALSE
  /\ ov_part \in [Replicas -> [Ranks -> OvParts]]
  /\ ovmd_ = ov_part
  /\ FnIdle
  /\ step = 0
  /\ exch = FALSE
  /\ first_time_ = <<>>
  /\ pend = <<>>
  /\ restart = FALSE
  /\ sigma_ = <<>>
  /\ MCaccept_ = <<>>
  /\ sampled = {}
  /\ mc = <<>>
  /\ nl_pos = [im \in Atoms |-> <<0, 0, 0>>]
  /\ nl_cutoff_ = 1
  /\ nl_ = <<>>
  /\ ovmd_der_ = <<>>
  /\ nevals = 0
  /\ nl_rebuilt = FALSE

margFrame == <<step, exch, first_time_, pend, size_, multi_size, no_aver_,
               do_sampling_, ov_part, restart, sigma_, MCaccept_, sampled, mc,
               nl_pos, nl_cutoff_, nl_, ovmd_der_, nevals, nl_rebuilt, fnVars>>

\* calculate_overlap on every worker: communicate stuff (lines 1064 to 1068)
overlap_communicate ==
  /\ hphase = "overlap"
  /\ ovmd_' = IF size_ > 1
              THEN [rep \in Replicas |-> [rank \in Ranks |-> CommSum(ovmd_, rep)]]
              ELSE ovmd_
  /\ hphase' = "marginal"
  /\ UNCHANGED margFrame

\* calculate_marginal on every worker: the average across the replicas
calculate_marginal ==
  /\ hphase = "marginal"
  /\ ovmd_' = IF ~no_aver_ /\ nrep_ > 1
              THEN [rep \in Replicas |-> [rank \in Ranks |->
                      CommSum(AverageLocal(ovmd_), rep)]]
              ELSE ovmd_
  /\ hphase' = "scored"
  /\ UNCHANGED margFrame

MargNext == overlap_communicate \/ calculate_marginal

SpecMarg == MargInit /\ [][MargNext]_vars

RECURSIVE SumAllParts(_, _)
SumAllParts(rep, i) ==
  IF rep >= multi_size THEN 0
  ELSE SumRanks(ov_part, rep, 0, i) + SumAllParts(rep + 1, i)

\* C10: with averaging and more than one replica, after calculate_marginal
\* every worker of every replica holds for each data component the sum over
\* the replicas of the replica's whole overlap, divided by the number of
\* replicas.
C10_AverageEverywhere ==
  (hphase = "scored" /\ ~no_aver_ /\ multi_size > 1) =>
    \A rep \in Replicas : \A rank \in Ranks : \A i \in 1..GMM_d_size :
      ovmd_[rep][rank][i] * multi_size = SumAllParts(0, i)

\* C10 witness: two replicas of two workers, the two replicas with different
\* overlaps, every worker with a contribution, and the average held by the
\* second worker of the second replica.
C10_Witness ==
  /\ hphase = "scored" /\ ~no_aver_ /\ multi_size = 2 /\ size_ = 2
  /\ \A rep \in Replicas : \A rank \in Ranks : ov_part[rep][rank] # ZeroOv
  /\ CommSum(ov_part, 0) # CommSum(ov_part, 1)
  /\ ovmd_[1][1] = <<3, 1, 7>>

(***************************************************************************)
(* Functions of the code taken alone: args holds what the function is      *)
(* called with, result what it leaves; everything else stands still.       *)
(***************************************************************************)
FnRestIdle ==
  /\ step = 0
  /\ exch = FALSE
  /\ hphase = "calculate"
  /\ size_ = 1
  /\ NLIdle
  /\ MCIdle
  /\ do_sampling_ = FALSE
  /\ pend = <<>>
  /\ ovmd_ = <<>>
  /\ ov_part = <<>>
  /\ AccIdle

fnFrame == <<nlVars, mcVars, do_sampling_, pend, ovmd_, ov_part, accVars>>

\* largest overlap a function is called with
MaxOv == 2

OvVectors == [1..GMM_d_size -> 0..MaxOv]
OvddVectors == {<<1, 1, 1>>, <<2, 2, 2>>, <<1, 2, 1>>}

(***************************************************************************)
(* Doubles by what the score can tell of them: zero, a positive or a       *)
(* negative finite number, a finite number of either sign, an infinity, or *)
(* not a number.  Division and product follow IEEE 754.                    *)
(***************************************************************************)
ClassOf(n) == IF n = 0 THEN "zero" ELSE IF n > 0 THEN "pos" ELSE "neg"

IsInf(a) == a \in {"pinf", "ninf"}
Sgn(a) == IF a \in {"pos", "pinf"} THEN 1 ELSE IF a \in {"neg", "ninf"} THEN -1 ELSE 0
InfOf(sg) == IF sg > 0 THEN "pinf" ELSE "ninf"
FinOf(sg) == IF sg > 0 THEN "pos" ELSE IF sg < 0 THEN "neg" ELSE "zero"
IsFinite(a) == a \in {"zero", "pos", "neg", "fin"}

\* a / b; a zero divisor is +0.0
FDiv(a, b) ==
  IF a = "nan" \/ b = "nan" THEN "nan"
  ELSE IF b = "zero"
       THEN IF a = "zero" THEN "nan"
            ELSE IF a = "fin" THEN "nan" ELSE InfOf(Sgn(a))
  ELSE IF IsInf(b) THEN IF IsInf(a) THEN "nan" ELSE "zero"
  ELSE IF IsInf(a) THEN InfOf(Sgn(a) * Sgn(b))
  ELSE IF a = "zero" THEN "zero"
  ELSE IF a = "fin" \/ b = "fin" THEN "fin"
  ELSE FinOf(Sgn(a) * Sgn(b))

\* a * b
FMul(a, b) ==
  IF a = "nan" \/ b = "nan" THEN "nan"
  ELSE IF (IsInf(a) /\ b = "zero") \/ (a = "zero" /\ IsInf(b)) THEN "nan"
  ELSE IF IsInf(a) \/ IsInf(b)
       THEN IF a = "fin" \/ b = "fin" THEN "nan" ELSE InfOf(Sgn(a) * Sgn(b))
  ELSE IF a = "zero" \/ b = "zero" THEN "zero"
  ELSE IF a = "fin" \/ b = "fin" THEN "fin"
  ELSE FinOf(Sgn(a) * Sgn(b))

\* a + b
FAdd(a, b) ==
  IF a = "nan" \/ b = "nan" THEN "nan"
  ELSE IF IsInf(a) /\ IsInf(b) THEN IF a = b THEN a ELSE "nan"
  ELSE IF IsInf(a) THEN a
  ELSE IF IsInf(b) THEN b
  ELSE IF a = "zero" THEN b
  ELSE IF b = "zero" THEN a
  ELSE IF a = b THEN a ELSE "fin"

\* -std::log(a)
FNegLog(a) ==
  IF a \in {"nan", "neg", "ninf", "fin"} THEN "nan"
  ELSE IF a = "zero" THEN "pinf"
  ELSE IF a = "pinf" THEN "ninf"
  ELSE "fin"

\* erf(a): odd, zero at zero
FErf(a) == IF a = "nan" THEN "nan" ELSE FinOf(Sgn(a))

\* exp(-0.5 * a * a)
FExpMinusHalfSq(a) == IF a = "nan" THEN "nan" ELSE IF IsInf(a) THEN "zero" ELSE "pos"

(***************************************************************************)
(* calculate_marginal: the score and the derivative of one component       *)
(* (lines 1282 to 1312); sigma0_, kbt_, escale and the constants positive. *)
(***************************************************************************)
\* dev = ( scale_*ovmd_[i]-ovdd_[i] ) / sigma0_[i]
MargDev(a, i) == FDiv(ClassOf(a.scale * a.ovmd[i] - a.ovdd[i]), "pos")

\* -std::log ( 0.5 / dev * err_f_[i])
MargTerm(a, i) ==
  FNegLog(FMul(FDiv("pos", MargDev(a, i)), FErf(MargDev(a, i))))

RECURSIVE MargEneSum(_, _)
MargEneSum(a, i) ==
  IF i > GMM_d_size THEN "zero" ELSE FAdd(MargTerm(a, i), MargEneSum(a, i + 1))

\* ene *= kbt_ / escale
MargEne(a) == FMul(MargEneSum(a, 1), "pos")

\* der = -kbt_ / err_f_[id] * sqrt2_pi_ * exp_f_[id] / sigma0_[id]
\* der += kbt_ / (scale_*ovmd_[id]-ovdd_[id])
MargDer(a, i) ==
  FAdd(FDiv(FMul(FMul(FDiv("neg", FErf(MargDev(a, i))), "pos"),
                 FExpMinusHalfSq(MargDev(a, i))), "pos"),
       FDiv("pos", ClassOf(a.scale * a.ovmd[i] - a.ovdd[i])))

MargScoreInit ==
  /\ args \in [scale : 1..2, ovmd : OvVectors, ovdd : OvddVectors]
  /\ result = <<>>
  /\ FnRestIdle

marginal_score ==
  /\ result = <<>>
  /\ result' = [ene |-> MargEne(args),
                der |-> [i \in 1..GMM_d_size |-> MargDer(args, i)]]
  /\ UNCHANGED <<args, fnFrame>>

MargScoreNext == marginal_score

SpecMargScore == MargScoreInit /\ [][MargScoreNext]_vars

\* C11: marginal scoring with scale 1 and the model overlap equal to the
\* data overlap in every component leaves a finite energy and finite
\* derivatives.
C11_FiniteAtZeroDeviation ==
  (result # <<>> /\ args.scale = 1 /\ args.ovmd = args.ovdd) =>
    /\ IsFinite(result.ene)
    /\ \A i \in 1..GMM_d_size : IsFinite(result.der[i])

(***************************************************************************)
(* doRegression, weighted and not (lines 1072 to 1105).  scale_ is kept as *)
(* a fraction <<numerator, denominator>> in lowest terms; the weights      *)
(* inv_s2[i] = 1/s2[i] are all multiplied by the product of the s2, which  *)
(* changes neither the sign of an accumulator nor the ratio.               *)
(***************************************************************************)
RECURSIVE GCD(_, _)
GCD(a, b) == IF b = 0 THEN a ELSE GCD(b, a % b)

Ratio(n, d) == <<n \div GCD(n, d), d \div GCD(n, d)>>

RECURSIVE ProdSeq(_)
ProdSeq(q) == IF q = <<>> THEN 1 ELSE Head(q) * ProdSeq(Tail(q))

\* inv_s2[i], times the product of all s2; 1 in the non-weighted regression
RegWeight(a, i) == IF a.no_weights THEN 1 ELSE ProdSeq(a.s2) \div a.s2[i]

\* Bn += ovmd_[i] * ovdd_[i] * inv_s2[i]
RECURSIVE RegBn(_, _)
RegBn(a, i) ==
  IF i > GMM_d_size THEN 0
  ELSE a.ovmd[i] * a.ovdd[i] * RegWeight(a, i) + RegBn(a, i + 1)

\* Bd += ovmd_[i] * ovmd_[i] * inv_s2[i]
RegBdUnweighted(a, i) ==
  SumSeq([k \in 1..GMM_d_size |-> IF k >= i THEN a.ovmd[k] * a.ovmd[k] ELSE 0])

RECURSIVE RegBd(_, _)
RegBd(a, i) ==
  IF i > GMM_d_size THEN 0
  ELSE a.ovmd[i] * a.ovmd[i] * RegWeight(a, i) + RegBd(a, i + 1)

\* scale_ = 1.
RegFallbackZero == <<0, 1>>

RegFallback == <<1, 1>>

\* reset scale_
doRegression(a) ==
  IF RegBd(a, 1) <= 0 \/ RegBn(a, 1) <= 0
  THEN RegFallback
  ELSE Ratio(RegBn(a, 1), RegBd(a, 1))

\* s2 = sigma_mean_[i]*sigma_mean_[i]+sigma_[i]*sigma_[i] (line 1168)
S2Vectors == {<<1, 1, 1>>, <<2, 5, 2>>, <<5, 2, 10>>}

RegOvddVectors == OvddVectors \cup {<<3, 3, 3>>, <<3, 6, 3>>, <<6, 3, 6>>}

RegrInit ==
  /\ args \in [no_weights : BOOLEAN, ovmd : OvVectors, ovdd : RegOvddVectors,
               s2 : S2Vectors]
  /\ result = <<>>
  /\ FnRestIdle

\* the regression of calculate_sigma (lines 1191 to 1194) and of
\* calculate_marginal (line 1280), when it is due
regression ==
  /\ result = <<>>
  /\ result' = [scale |-> doRegression(args)]
  /\ UNCHANGED <<args, fnFrame>>

RegrNext == regression

SpecRegr == RegrInit /\ [][RegrNext]_vars

\* C12: a regression with a non-positive accumulator sets the scale to
\* exactly 1; any other regression sets it to the ratio of the two
\* accumulators, which is strictly positive.
C12_RegressionFallback ==
  result # <<>> =>
    IF RegBn(args, 1) <= 0 \/ RegBd(args, 1) <= 0
    THEN result.scale = <<1, 1>>
    ELSE /\ result.scale[1] * RegBd(args, 1) = result.scale[2] * RegBn(args, 1)
         /\ result.scale[1] > 0 /\ result.scale[2] > 0

\* C12 witness: a weighted regression on model overlaps that are all zero
\* has left the scale at 1.
C12_Witness ==
  /\ result # <<>> /\ ~args.no_weights
  /\ \A i \in 1..GMM_d_size : args.ovmd[i] = 0
  /\ RegBd(args, 1) = 0
  /\ result.scale = <<1, 1>>

\* C13: when the data overlap is three times the model overlap in every
\* component a regression sets the scale to 3, weighted or not.
C13_RegressionRecoversThree ==
  (result # <<>> /\ \A i \in 1..GMM_d_size : args.ovdd[i] = 3 * args.ovmd[i]) =>
    result.scale = <<3, 1>>

\* C13 witness: a weighted regression with unequal weights and unequal
\* overlaps, the data three times the model, has left the scale at 3.
C13_Witness ==
  /\ result # <<>> /\ ~args.no_weights
  /\ args.s2 = <<5, 2, 10>>
  /\ args.ovmd = <<1, 2, 1>> /\ args.ovdd = <<3, 6, 3>>
  /\ result.scale = <<3, 1>>

(***************************************************************************)
(* The end of the constructor: sigma_ as initialised, then read_status on  *)
(* restart with sampling (lines 491 and 492).                              *)
(***************************************************************************)
\* longest status file
MaxRecords == 2

RECURSIVE SeqsUpTo(_, _)
SeqsUpTo(R, n) ==
  IF n = 0 THEN {<<>>}
  ELSE LET shorter == SeqsUpTo(R, n - 1)
       IN  shorter \cup {Append(q, r) : q \in shorter, r \in R}

\* what a status file can hold: records of earlier runs, of any input
FileRecords == StatusRecords \cup {<<1, 1, 1>>}

\* the status file: whether ifile->FileExist(statusfilename_), and its records
ReloadFiles ==
  {[exists |-> FALSE, records |-> <<>>]}
    \cup {[exists |-> TRUE, records |-> q] : q \in SeqsUpTo(FileRecords, MaxRecords)}

\* sigma_ as the constructor initialised it, for some SIGMA0
IniVectors == {sigma_fresh, sigma_max_, <<4, 4, 4>>}

ReloadInit ==
  /\ args \in [do_sampling : BOOLEAN, restart : BOOLEAN, file : ReloadFiles,
               sigma_ini : IniVectors]
  /\ result = <<>>
  /\ FnRestIdle

\* if(do_sampling_ && getRestart()) read_status();
reload ==
  /\ result = <<>>
  /\ result' =
       IF args.do_sampling /\ args.restart
       THEN IF ~args.file.exists
            THEN [failed |-> TRUE, sigma |-> <<>>]
            ELSE [failed |-> FALSE,
                  sigma |-> read_status(args.file.records, args.sigma_ini)]
       ELSE [failed |-> FALSE, sigma |-> args.sigma_ini]
  /\ UNCHANGED <<args, fnFrame>>

ReloadNext == reload

SpecReload == ReloadInit /\ [][ReloadNext]_vars

\* C14: on restart with sampling, initialisation fails when there is no
\* status file; otherwise sigma_ is the last record of the file, whatever
\* the constructor had initialised it to.
C14_LastRecordReloaded ==
  (result # <<>> /\ args.do_sampling /\ args.restart) =>
    IF ~args.file.exists THEN result.failed
    ELSE /\ ~result.failed
         /\ Len(args.file.records) > 0 =>
              result.sigma = args.file.records[Len(args.file.records)]

\* C14 witness: a file of two different records has been reloaded over an
\* initial vector that is neither, and the second record is what is held.
C14_Witness ==
  /\ result # <<>> /\ args.do_sampling /\ args.restart
  /\ args.file.exists /\ Len(args.file.records) = 2
  /\ args.file.records[1] # args.file.records[2]
  /\ args.sigma_ini \notin {args.file.records[1], args.file.records[2]}
  /\ result.sigma = args.file.records[2]

(***************************************************************************)
(* get_GMM_d and check_GMM_d (lines 770 to 822): the records of the data   *)
(* GMM file, read in order; error() ends the run at the first bad record.  *)
(***************************************************************************)
\* check if weight is positive (line 782)
WeightRejected(w) == w < 0

\* the 3 leading principal minors and Sylvester's criterion
check_GMM_d(cov, w) ==
  LET pm1 == cov[1]
      pm2 == cov[1] * cov[4] - cov[2] * cov[2]
      pm3 == cov[1] * (cov[4] * cov[6] - cov[5] * cov[5])
               - cov[2] * (cov[2] * cov[6] - cov[5] * cov[3])
               + cov[3] * (cov[2] * cov[5] - cov[4] * cov[3])
  IN  /\ ~(pm1 <= 0 \/ pm2 <= 0 \/ pm3 <= 0)
      /\ ~WeightRejected(w)

\* one record passes check_GMM_d and the test on beta
RecordAccepted(r) == check_GMM_d(r.cov, r.w) /\ ~(r.beta # 0 /\ r.beta # 1)

\* the records pushed back, or the error at the first record refused
RECURSIVE get_GMM_d(_, _)
get_GMM_d(records, GMM_d_w) ==
  IF records = <<>> THEN [failed |-> FALSE, GMM_d_w_ |-> GMM_d_w]
  ELSE IF ~RecordAccepted(Head(records)) THEN [failed |-> TRUE, GMM_d_w_ |-> <<>>]
  ELSE get_GMM_d(Tail(records), Append(GMM_d_w, Head(records).w))

\* a covariance that is positive definite and one that is not
GMMCovs == {<<2, 1, 0, 2, 0, 1>>, <<1, 2, 0, 1, 0, 1>>}

GMMRecords == [w : -1..1, cov : GMMCovs, beta : 0..2]

GMMFiles ==
  {[exists |-> FALSE, records |-> <<>>]}
    \cup {[exists |-> TRUE, records |-> q] : q \in SeqsUpTo(GMMRecords, MaxRecords)}

GMMInit ==
  /\ args \in [file : GMMFiles]
  /\ result = <<>>
  /\ FnRestIdle

\* get_GMM_d(GMM_file) in the constructor
load_GMM_d ==
  /\ result = <<>>
  /\ result' = IF args.file.exists
               THEN get_GMM_d(args.file.records, <<>>)
               ELSE [failed |-> TRUE, GMM_d_w_ |-> <<>>]
  /\ UNCHANGED <<args, fnFrame>>

GMMNext == load_GMM_d

SpecGMM == GMMInit /\ [][GMMNext]_vars

\* C15: after a data GMM was loaded without error every data component has
\* a strictly positive weight.
C15_WeightsStrictlyPositive ==
  (result # <<>> /\ ~result.failed) =>
    \A k \in 1..Len(result.GMM_d_w_) : result.GMM_d_w_[k] > 0

(***************************************************************************)
(* calculate_sigma from the Monte Carlo step to the acceptance ratio       *)
(* (lines 1240 to 1255), on the workers of one replica, step after step;   *)
(* MCfirst_ and acc are those of rank 0.                                   *)
(***************************************************************************)
AccInit ==
  /\ SampledInit(1)
  /\ step \in 0..1
  /\ exch \in BOOLEAN
  /\ hphase = "calculate"
  /\ mc = <<>>
  /\ NLIdle
  /\ do_sampling_ = TRUE
  /\ pend = <<>>
  /\ ovmd_ = <<>>
  /\ ov_part = <<>>
  /\ args = <<>>
  /\ result = <<>>
  /\ dsigma_set \in {0, dsigma_}
  /\ MCfirst_ = -1
  /\ acc = <<>>
  /\ attempted = 0

accFrame == <<size_, no_aver_, restart, multi_size, mc, nlIdleVars, do_sampling_,
              pend, ovmd_, ov_part, args, result, dsigma_set>>

\* if(dsigma_>0 && step%MCstride_==0 && !getExchangeStep()) doMonteCarlo();
MonteCarloDueAnyDsigma(ds) == step % MCstride_ = 0 /\ ~exch

MonteCarloDue(ds) == ds > 0 /\ step % MCstride_ = 0 /\ ~exch

\* if(MCfirst_==-1) MCfirst_=step;
MCfirst_after == IF MCfirst_ = -1 THEN step ELSE MCfirst_

\* std::floor((step-MCfirst_) / MCstride_)+1.0
MCtrials == (step - MCfirst_after) \div MCstride_ + 1

sigma_acc ==
  /\ hphase = "calculate"
  /\ IF MonteCarloDue(dsigma_set)
     THEN /\ \E draws \in [Samplers -> Draws(OvmdNow)] : doMonteCarlo(draws)
          /\ attempted' = attempted + 1
     ELSE UNCHANGED <<sigma_, MCaccept_, sampled, attempted>>
  /\ IF dsigma_set > 0
     THEN /\ MCfirst_' = MCfirst_after
          /\ acc' = [accepted |-> MCaccept_'[0][0], trials |-> MCtrials]
     ELSE UNCHANGED <<MCfirst_, acc>>
  /\ hphase' = "advance"
  /\ UNCHANGED <<step, exch, accFrame>>

AccHostAdvance ==
  /\ hphase = "advance"
  /\ step < MaxStep
  /\ step' = step + 1
  /\ exch' \in BOOLEAN
  /\ hphase' = "calculate"
  /\ UNCHANGED <<sigma_, MCaccept_, sampled, attempted, MCfirst_, acc, accFrame>>

AccNext == sigma_acc \/ AccHostAdvance

SpecAcc == AccInit /\ [][AccNext]_vars

\* C16: with a positive Monte Carlo step size the output acc is the number
\* of accepted moves over the number of moves attempted so far.
C16_AccIsAcceptedOverAttempted ==
  (dsigma_set > 0 /\ acc # <<>> /\ attempted > 0) =>
    /\ acc.accepted = MCaccept_[0][0]
    /\ acc.accepted * attempted = MCaccept_[0][0] * acc.trials

\* C18: with DSIGMA = 0 an evaluation leaves the sigma vector of every
\* worker as it was, whatever the step and the exchange flag.
C18_SigmaFrozen ==
  [][dsigma_set = 0 => sigma_' = sigma_]_vars

\* C18 witness: with DSIGMA = 0, two workers and a reloaded vector, the
\* evaluation of step 2, a multiple of MC_STRIDE and no exchange step, is
\* done and no move was attempted.
C18_Witness ==
  /\ dsigma_set = 0 /\ size_ > 1 /\ restart
  /\ step = 2 /\ ~exch /\ hphase = "advance"
  /\ attempted = 0
  /\ sigma_[0][1] = sigma_[0][0] /\ sigma_[0][0] # sigma_fresh

(***************************************************************************)
(* Atoms beyond the tabulated exponential (update_neighbor_list, lines 976 *)
(* to 997) and the model overlap summed over the rebuilt list              *)
(* (calculate_overlap, lines 1047 to 1062).                                *)
(***************************************************************************)
\* exp(-0.5 * ov) of get_overlap in the units of tab_exp_: exact, so positive
\* for every distance; beyond the table it is at most the last sample
ExpHalf(expov) ==
  IF TabIndex(expov) < nexp_ THEN tab_exp_[TabIndex(expov) + 1]
  ELSE tab_exp_[nexp_]

\* get_overlap(GMM_d_m_[id], pos(im), pre_fact_[kaux], inv_cov_md_[kaux], ...)
get_overlap(p, id, im) ==
  pre_fact_[kauxOf(id, im) + 1]
    * ExpHalf(get_exp_overlap(GMM_d_m_[id + 1], p[im],
                              inv_cov_md_[kauxOf(id, im) + 1]))

\* ovmd_[id] after the loop over nl_ and the sum over the ranks: every entry
\* of the list is visited by exactly one rank
RECURSIVE ovmd_of(_, _, _)
ovmd_add(nl, p, id) ==
  IF Head(nl) \div GMM_m_size = id
  THEN get_overlap(p, id, Head(nl) % GMM_m_size) + ovmd_of(Tail(nl), p, id)
  ELSE ovmd_of(Tail(nl), p, id)

ovmd_of(nl, p, id) == IF nl = <<>> THEN 0 ELSE ovmd_add(nl, p, id)

\* the quadratic form of atom im for component id rounds to a table index at
\* or beyond the end of the table: round(a/b) >= nexp_, a/b = 0.5*expov/dexp_
BeyondTable(p, id, im) ==
  LET expov == get_exp_overlap(GMM_d_m_[id + 1], p[im],
                               inv_cov_md_[kauxOf(id, im) + 1])
  IN  2 * expov * (nexp_ - 1) + 2 * dpcutoff_ >= 4 * dpcutoff_ * nexp_

WithinTable(p, id) == {im \in Atoms : ~BeyondTable(p, id, im)}

ListedOn(r, id) ==
  {nl_[r][j] % GMM_m_size :
     j \in {k \in DOMAIN nl_[r] : nl_[r][k] \div GMM_m_size = id}}

\* C19: in a rebuild an atom beyond the table is in no worker's list for that
\* component and adds nothing to the component's total mass; a component with
\* every atom beyond the table gets no entries and keeps model overlap 0.
C19_BeyondTableDropped ==
  JustRebuilt =>
    \A id \in Comps :
      /\ \A r \in Ranks : \A im \in Atoms :
           BeyondTable(nl_pos, id, im) => im \notin ListedOn(r, id)
      /\ ScanAtoms(nl_pos, id, 0, <<>>, <<>>, 0).ov_tot
           = SumOv(nl_pos, id, WithinTable(nl_pos, id))
      /\ WithinTable(nl_pos, id) = {} =>
           /\ \A r \in Ranks : ListedOn(r, id) = {}
           /\ ovmd_of(nl_[0], nl_pos, id) = 0

\* C19 witness: a rebuild in which one component has every atom beyond the
\* table and another has atoms on both sides, some of them listed
C19_Witness ==
  /\ JustRebuilt
  /\ \E id \in Comps : WithinTable(nl_pos, id) = {}
  /\ \E id \in Comps :
       /\ \E im \in Atoms : BeyondTable(nl_pos, id, im)
       /\ ListedOn(0, id) # {}
       /\ ovmd_of(nl_[0], nl_pos, id) > 0

(***************************************************************************)
(* The score of calculate_sigma (lines 1196 to 1237) and the energies of   *)
(* doMonteCarlo (lines 638 to 652) as functions of the prior exponent, the *)
(* scale, the model overlaps and sigma.  Energies in 1/1000 of the unit.   *)
(***************************************************************************)
MaxPrior == 2

\* scale_*ovmd_[i]-ovdd_[i]
ScoreDev(a, i) == a.scale * a.ovmd[i] - ovdd_[i]

\* 1 / inv_s2[i] = sigma_mean_[i]*sigma_mean_[i]+sigma_[i]*sigma_[i]
ScoreS2(a, i) == sigma_mean_[i] * sigma_mean_[i] + a.sigma[i] * a.sigma[i]

\* ene += (scale_*ovmd_[i]-ovdd_[i]) * (scale_*ovmd_[i]-ovdd_[i]) * inv_s2[i]
RECURSIVE ScoreSum(_, _)
ScoreSum(a, i) ==
  IF i > GMM_d_size THEN 0
  ELSE (ScoreDev(a, i) * ScoreDev(a, i) * 1000) \div ScoreS2(a, i)
         + ScoreSum(a, i + 1)

\* a score that also carries the prior term of the Monte Carlo energies
scorebWithPrior(a) ==
  (kbt_ * ScoreSum(a, 1)) \div 2
    + kbt_ * a.prior * Ln1000[ScoreS2(a, 1)]

\* ene *= 0.5 * kbt_; getPntrToComponent("scoreb")->set(ene)
scoreb(a) == (kbt_ * ScoreSum(a, 1)) \div 2

\* der = kbt_ * (scale_*ovmd_[id]-ovdd_[id]) * inv_s2[id]; the factor of
\* tot_der = der * ovmd_der_[i] * escale * scale_ that is not ovmd_der_[i]
\* (escale = 1: one replica)
scorebDer(a, id) == (kbt_ * ScoreDev(a, id) * 1000 * a.scale) \div ScoreS2(a, id)

\* pre_fact/old_s2 + kbt_*prior_*std::log(old_s2), pre_fact = 0.5*kbt_*dev*dev
MCeneOf(a, i) ==
  ((kbt_ * ScoreDev(a, i) * ScoreDev(a, i) * 1000) \div (2 * ScoreS2(a, i)))
    + kbt_ * a.prior * Ln1000[ScoreS2(a, i)]

ScoreSigmas == {sigma_min_, sigma_fresh, sigma_max_}

ScoreInit ==
  /\ args \in [prior : 0..MaxPrior, scale : 1..2, ovmd : OvVectors,
               sigma : ScoreSigmas]
  /\ result = <<>>
  /\ FnRestIdle

\* one evaluation of calculate_sigma: the score, the derivative factors and the
\* energy terms the Monte Carlo move starts from
sigma_score ==
  /\ result = <<>>
  /\ result' = [scoreb |-> scoreb(args),
                der |-> [id \in 1..GMM_d_size |-> scorebDer(args, id)],
                old_ene |-> [i \in 1..GMM_d_size |-> MCeneOf(args, i)]]
  /\ UNCHANGED <<args, fnFrame>>

ScoreNext == sigma_score

SpecScore == ScoreInit /\ [][ScoreNext]_vars

\* C17: the score and the derivatives are the same for every prior exponent,
\* the overlaps, the scale and sigma being equal; the Monte Carlo energy of a
\* component is its energy without prior plus kT * prior * log(s2).
C17_PriorOnlyInMonteCarlo ==
  result # <<>> =>
    \A pr \in 0..MaxPrior :
      /\ result.scoreb = scoreb([args EXCEPT !.prior = pr])
      /\ \A id \in 1..GMM_d_size :
           /\ result.der[id] = scorebDer([args EXCEPT !.prior = pr], id)
           /\ result.old_ene[id] - MCeneOf([args EXCEPT !.prior = pr], id)
                = kbt_ * (args.prior - pr) * Ln1000[ScoreS2(args, id)]

\* C17 witness: a score evaluated with prior exponent 2, a deviation in every
\* component and a nonzero prior term in every Monte Carlo energy
C17_Witness ==
  /\ result # <<>>
  /\ args.prior = 2
  /\ result.scoreb > 0
  /\ \A id \in 1..GMM_d_size :
       /\ result.der[id] # 0
       /\ result.old_ene[id] # MCeneOf([args EXCEPT !.prior = 0], id)

(***************************************************************************)
(* The inverse of the sum of two packed covariance matrices, as            *)
(* calculate_useful_stuff (lines 841 to 859) and get_prefactor_inverse     *)
(* (lines 880 to 897) compute it.  Packed order: 00, 01, 02, 11, 12, 22.   *)
(* inv_sum[k] is the quotient num[k] / det, kept as the pair.              *)
(***************************************************************************)
MaxCov == 2

\* for(k = 0; k < 6; ++k) sum[k] = cov0[k] + cov1[k]
SumCov(c0, c1) == [k \in 1..6 |-> c0[k] + c1[k]]

\* cov[0]=s2; cov[1]=0.0; cov[2]=0.0; cov[3]=s2; cov[4]=0.0; cov[5]=s2
Spherical(s2) == <<s2, 0, 0, s2, 0, s2>>

\* the inverse of get_prefactor_inverse with the sign of inv_sum[1] turned
get_prefactor_inverse_turned(c0, c1) ==
  LET sum == SumCov(c0, c1)
  IN  [sum |-> sum,
       det |-> sum[1] * (sum[4] * sum[6] - sum[5] * sum[5])
                 - sum[2] * (sum[2] * sum[6] - sum[5] * sum[3])
                 + sum[3] * (sum[2] * sum[5] - sum[4] * sum[3]),
       num |-> << sum[4] * sum[6] - sum[5] * sum[5],
                  sum[2] * sum[6] - sum[3] * sum[5],
                  sum[2] * sum[5] - sum[3] * sum[4],
                  sum[1] * sum[6] - sum[3] * sum[3],
                  sum[3] * sum[2] - sum[1] * sum[5],
                  sum[1] * sum[4] - sum[2] * sum[2] >>]

\* the body of the cycle on the data GMM for an atom type with variance s2
calculate_useful_stuff(s2, d_cov) ==
  LET sum == SumCov(Spherical(s2), d_cov)
  IN  [sum |-> sum,
       det |-> sum[1] * (sum[4] * sum[6] - sum[5] * sum[5])
                 - sum[2] * (sum[2] * sum[6] - sum[5] * sum[3])
                 + sum[3] * (sum[2] * sum[5] - sum[4] * sum[3]),
       num |-> << sum[4] * sum[6] - sum[5] * sum[5],
                  sum[3] * sum[5] - sum[2] * sum[6],
                  sum[2] * sum[5] - sum[3] * sum[4],
                  sum[1] * sum[6] - sum[3] * sum[3],
                  sum[3] * sum[2] - sum[1] * sum[5],
                  sum[1] * sum[4] - sum[2] * sum[2] >>]

get_prefactor_inverse(c0, c1) ==
  LET sum == SumCov(c0, c1)
  IN  [sum |-> sum,
       det |-> sum[1] * (sum[4] * sum[6] - sum[5] * sum[5])
                 - sum[2] * (sum[2] * sum[6] - sum[5] * sum[3])
                 + sum[3] * (sum[2] * sum[5] - sum[4] * sum[3]),
       num |-> << sum[4] * sum[6] - sum[5] * sum[5],
                  sum[3] * sum[5] - sum[2] * sum[6],
                  sum[2] * sum[5] - sum[3] * sum[4],
                  sum[1] * sum[6] - sum[3] * sum[3],
                  sum[3] * sum[2] - sum[1] * sum[5],
                  sum[1] * sum[4] - sum[2] * sum[2] >>]

\* the covariances check_GMM_d lets through, entries within the bound
SPDCovs ==
  {c \in [1..6 -> (0 - 1)..MaxCov] :
     /\ c[1] > 0 /\ c[4] > 0 /\ c[6] > 0
     /\ check_GMM_d(c, 1)}

CovPool == {<<2, 1, 0, 2, 0, 1>>, <<1, 0, 0, 2, 1, 1>>, <<3, 1, 1, 2, 0, 2>>}

InvInit ==
  /\ args \in [s2 : 1..MaxCov, cov0 : CovPool, cov1 : SPDCovs]
  /\ result = <<>>
  /\ FnRestIdle

\* the inverse for one atom type and one data component by
\* calculate_useful_stuff, and by get_prefactor_inverse for the same pair and
\* for a pair of data components
invert ==
  /\ result = <<>>
  /\ result' = [useful |-> calculate_useful_stuff(args.s2, args.cov1),
                same |-> get_prefactor_inverse(Spherical(args.s2), args.cov1),
                pair |-> get_prefactor_inverse(args.cov0, args.cov1)]
  /\ UNCHANGED <<args, fnFrame>>

InvNext == invert

SpecInv == InvInit /\ [][InvNext]_vars

\* entry (i, j) of the symmetric matrix packed in v
Packed(v, i, j) ==
  LET lo == IF i <= j THEN i ELSE j
      hi == IF i <= j THEN j ELSE i
  IN  v[IF lo = 1 THEN hi ELSE IF lo = 2 THEN hi + 2 ELSE 6]

\* sum x num = det x I and det > 0
IsInverse(r) ==
  /\ r.det > 0
  /\ \A i, j \in 1..3 :
       Packed(r.sum, i, 1) * Packed(r.num, 1, j)
         + Packed(r.sum, i, 2) * Packed(r.num, 2, j)
         + Packed(r.sum, i, 3) * Packed(r.num, 3, j)
       = (IF i = j THEN r.det ELSE 0)

\* C20: for a positive-definite covariance sum the packed inverse times the
\* sum is the identity (sum x adjugate = det x I, det the 3-term expansion),
\* and calculate_useful_stuff and get_prefactor_inverse give the same result.
C20_AnalyticInverse ==
  result # <<>> =>
    /\ IsInverse(result.useful)
    /\ IsInverse(result.same)
    /\ IsInverse(result.pair)
    /\ result.useful = result.same
    /\ result.pair.sum = SumCov(args.cov0, args.cov1)
    /\ result.useful.sum = SumCov(Spherical(args.s2), args.cov1)

\* C20 witness: an inverse taken of a sum with every off-diagonal entry
\* nonzero and a determinant other than 1
C20_Witness ==
  /\ result # <<>>
  /\ \A k \in {2, 3, 5} : result.pair.sum[k] # 0 /\ result.pair.num[k] # 0
  /\ result.pair.det > 1
  /\ \E k \in {2, 3, 5} : result.useful.sum[k] # 0

(***************************************************************************)
(* When the regression runs and which variant (calculate_sigma, lines 1190 *)
(* to 1194; calculate_marginal, line 1280).  args holds REGRESSION,        *)
(* NO_WEIGHTS, SCALE and the s2 of the evaluation; result holds scale_,    *)
(* the overload of doRegression called last and the overlaps it saw.       *)
(***************************************************************************)
\* a regression that is not held back on exchange steps
RegressionDueOnExchange(a) ==
  a.nregres > 0 /\ step % a.nregres = 0

\* nregres_>0 && step%nregres_==0 && !getExchangeStep()
RegressionDue(a) ==
  a.nregres > 0 /\ step % a.nregres = 0 /\ ~exch

\* if(no_weights_) doRegression(); else doRegression(inv_s2); in
\* calculate_marginal always doRegression()
RegressionCall(a, ovmd) ==
  IF do_sampling_ /\ ~a.no_weights
  THEN [scale_ |-> doRegression([no_weights |-> FALSE, ovmd |-> ovmd,
                                 ovdd |-> ovdd_, s2 |-> a.s2]),
        called |-> "doRegression(inv_s2)", ovmd |-> ovmd]
  ELSE [scale_ |-> doRegression([no_weights |-> TRUE, ovmd |-> ovmd,
                                 ovdd |-> ovdd_, s2 |-> a.s2]),
        called |-> "doRegression()", ovmd |-> ovmd]

\* the model overlaps an evaluation may see
ScaleOvmds == {<<0, 0, 0>>, <<1, 1, 1>>, <<1, 2, 0>>, <<2, 1, 2>>, <<0, 1, 2>>}

ScaleInit ==
  /\ args \in [nregres : 0..2, no_weights : BOOLEAN, scale0 : {<<1, 1>>, <<2, 1>>},
               s2 : {<<1, 1, 1>>, <<2, 5, 2>>}]
  /\ result = [scale_ |-> args.scale0, called |-> "none", ovmd |-> <<>>]
  /\ step = 0
  /\ exch \in BOOLEAN
  /\ hphase = "calculate"
  /\ size_ = 1
  /\ NLIdle
  /\ MCIdle
  /\ do_sampling_ \in BOOLEAN
  /\ pend = <<>>
  /\ ovmd_ = <<>>
  /\ ov_part = <<>>
  /\ AccIdle

\* one evaluation, calculate_sigma or calculate_marginal, as far as scale_
\* goes; ovmd holds the model overlaps of this evaluation
scale_evaluate ==
  /\ hphase = "calculate"
  /\ \E ovmd \in ScaleOvmds :
       result' = IF RegressionDue(args)
                 THEN RegressionCall(args, ovmd)
                 ELSE [result EXCEPT !.called = "none", !.ovmd = ovmd]
  /\ hphase' = "advance"
  /\ UNCHANGED <<args, step, exch, nl_pos, size_, nl_cutoff_, first_time_, nl_,
                 ovmd_der_, nevals, nl_rebuilt, mcVars, do_sampling_, pend,
                 ovmd_, ov_part, accVars>>

ScaleHostAdvance ==
  /\ hphase = "advance"
  /\ step < MaxStep
  /\ step' = step + 1
  /\ exch' \in BOOLEAN
  /\ hphase' = "calculate"
  /\ UNCHANGED <<args, result, nl_pos, size_, nl_cutoff_, first_time_, nl_,
                 ovmd_der_, nevals, nl_rebuilt, mcVars, do_sampling_, pend,
                 ovmd_, ov_part, accVars>>

ScaleNext == scale_evaluate \/ ScaleHostAdvance

SpecScale == ScaleInit /\ [][ScaleNext]_vars

\* the fit sum(ovmd*ovdd*w) / sum(ovmd*ovmd*w), 1 when a sum is not positive
FitOf(ovmd, w) ==
  LET bn == SumSeq([i \in 1..GMM_d_size |-> ovmd[i] * ovdd_[i] * w[i]])
      bd == SumSeq([i \in 1..GMM_d_size |-> ovmd[i] * ovmd[i] * w[i]])
  IN  IF bn <= 0 \/ bd <= 0 THEN <<1, 1>> ELSE Ratio(bn, bd)

\* 1/s2[i] for every i, times the product of the s2
InvS2Weights(s2) == [i \in 1..GMM_d_size |-> ProdSeq(s2) \div s2[i]]

UnitWeights == [i \in 1..GMM_d_size |-> 1]

StepDue == args.nregres > 0 /\ step % args.nregres = 0 /\ ~exch

\* C21: scale changes only in an evaluation with REGRESSION > 0, step a
\* multiple of the stride and no exchange; every other evaluation leaves it
\* alone; the weighted fit is used exactly in sampled mode without
\* NO_WEIGHTS, the unweighted fit otherwise.
C21_ScaleChangedOnlyByRegression ==
  [][/\ result'.scale_ # result.scale_ => hphase = "calculate" /\ StepDue
     /\ (hphase = "calculate" /\ ~StepDue) =>
          result'.scale_ = result.scale_ /\ result'.called = "none"
     /\ (hphase = "calculate" /\ StepDue) =>
          /\ result'.called # "none"
          /\ result'.called = "doRegression(inv_s2)"
               <=> (do_sampling_ /\ ~args.no_weights)
          /\ result'.scale_ =
               IF do_sampling_ /\ ~args.no_weights
               THEN FitOf(result'.ovmd, InvS2Weights(args.s2))
               ELSE FitOf(result'.ovmd, UnitWeights)]_vars

\* C21 witness: a weighted regression in sampled mode at step 2 that moved
\* scale to a value the unweighted fit would not give
C21_Witness ==
  /\ hphase = "advance"
  /\ step = 2
  /\ do_sampling_
  /\ args.nregres = 2
  /\ result.called = "doRegression(inv_s2)"
  /\ result.scale_ # args.scale0
  /\ result.scale_ # FitOf(result.ovmd, UnitWeights)

(***************************************************************************)
(* The striping of calculate_overlap (lines 1047 to 1068) and of the       *)
(* rebuild (line 970) over the workers.  args holds the worker count, the  *)
(* neighbor list, the positions and what ovmd_ and ovmd_der_ held before;  *)
(* result holds, per worker, ovmd_ and ovmd_der_ after the loop and after  *)
(* comm.Sum, and the local list of a rebuild.  Positions are on the x      *)
(* axis, so a derivative is its x component.                               *)
(***************************************************************************)
MaxList == 3

\* a loop that visits every index from i on, whatever the worker count
RECURSIVE StripeFromAll(_, _, _)
StripeFromAll(i, n, sz) ==
  IF i >= n THEN <<>> ELSE <<i>> \o StripeFromAll(i + 1, n, sz)

\* for(i = rank_; i < n; i = i + size_): the indices visited, from i on
RECURSIVE StripeFrom(_, _, _)
StripeFrom(i, n, sz) ==
  IF i >= n THEN <<>> ELSE <<i>> \o StripeFrom(i + sz, n, sz)

\* ov_der = ov * Vector(p_x, p_y, p_z), x component
get_overlap_der(p, id, im) ==
  get_overlap(p, id, im)
    * (delta(p[im], GMM_d_m_[id + 1])[1] * inv_cov_md_[kauxOf(id, im) + 1][1])

\* ovmd_[i] = 0.0 and ovmd_der_[i] = Vector(0,0,0), whatever was there
CleanTemp(old) == 0

\* ovmd_[id] += get_overlap(...) over the indices in idx
RECURSIVE LoopOvmd(_, _, _, _)
LoopOvmdAdd(nl, p, idx, acc_v) ==
  LET id == nl[Head(idx) + 1] \div GMM_m_size
      im == nl[Head(idx) + 1] % GMM_m_size
  IN  LoopOvmd(nl, p, Tail(idx),
               [acc_v EXCEPT ![id + 1] = @ + get_overlap(p, id, im)])

LoopOvmd(nl, p, idx, acc_v) ==
  IF idx = <<>> THEN acc_v ELSE LoopOvmdAdd(nl, p, idx, acc_v)

\* get_overlap writes ovmd_der_[i] for the indices in idx
RECURSIVE LoopDer(_, _, _, _)
LoopDerSet(nl, p, idx, der) ==
  LET id == nl[Head(idx) + 1] \div GMM_m_size
      im == nl[Head(idx) + 1] % GMM_m_size
  IN  LoopDer(nl, p, Tail(idx),
              [der EXCEPT ![Head(idx) + 1] = get_overlap_der(p, id, im)])

LoopDer(nl, p, idx, der) ==
  IF idx = <<>> THEN der ELSE LoopDerSet(nl, p, idx, der)

\* one worker, up to the end of the loop
LocalOvmd(a, rank) ==
  LoopOvmd(a.nl, a.p, StripeFrom(rank, Len(a.nl), a.size),
           [i \in 1..GMM_d_size |-> CleanTemp(a.old)])

LocalOvmdDer(a, rank) ==
  LoopDer(a.nl, a.p, StripeFrom(rank, Len(a.nl), a.size),
          [i \in 1..Len(a.nl) |-> CleanTemp(a.old)])

RECURSIVE SumOver(_, _, _, _)
SumOver(loc, rank, sz, k) ==
  IF rank >= sz THEN 0 ELSE loc[rank][k] + SumOver(loc, rank + 1, sz, k)

\* if(size_>1) comm.Sum(...): what every worker holds afterwards
Reduced(loc, sz, n) ==
  [rank \in 0..(sz - 1) |->
     IF sz > 1 THEN [k \in 1..n |-> SumOver(loc, 0, sz, k)] ELSE loc[rank]]

\* the components worker rank prunes in a rebuild
PrunedBy(rank, sz) == StripeFrom(rank, GMM_d_size, sz)

RECURSIVE ListsUpTo(_, _)
ListsUpTo(E, n) ==
  IF n = 0 THEN {<<>>}
  ELSE ListsUpTo(E, n - 1)
         \cup {Append(q, e) : q \in {x \in ListsUpTo(E, n - 1) : Len(x) = n - 1},
                              e \in E}

\* entries id * GMM_m_size + im of all three components
StripeEntries == {0, 1, 4, 5, 8}

StripePositions ==
  {[im \in Atoms |-> <<im, 0, 0>>], [im \in Atoms |-> <<3 - im, 0, 0>>]}

StripeInit ==
  /\ args \in [size : 1..(MaxSize + 1), nl : ListsUpTo(StripeEntries, MaxList),
               p : StripePositions, old : {0, 7}]
  /\ result = <<>>
  /\ FnRestIdle

\* calculate_overlap after the rebuild, on every worker, and the cycle on the
\* components of a rebuild
overlap_striped ==
  /\ result = <<>>
  /\ result' =
       [ovmd |-> Reduced([rank \in 0..(args.size - 1) |-> LocalOvmd(args, rank)],
                         args.size, GMM_d_size),
        ovmd_der |-> Reduced([rank \in 0..(args.size - 1) |->
                                LocalOvmdDer(args, rank)],
                             args.size, Len(args.nl)),
        visited |-> [rank \in 0..(args.size - 1) |->
                       StripeFrom(rank, Len(args.nl), args.size)],
        pruned |-> [rank \in 0..(args.size - 1) |-> PrunedBy(rank, args.size)]]
  /\ UNCHANGED <<args, fnFrame>>

StripeNext == overlap_striped

SpecStripe == StripeInit /\ [][StripeNext]_vars

\* C22: every list entry is visited by exactly the worker of rank i modulo
\* the worker count, every component is pruned by exactly one worker, and
\* after the reduction every worker holds for each component the sum of the
\* overlaps of the entries of that component, and in slot i the derivative
\* of entry i alone, whatever was held before.
C22_EachEntryOnce ==
  result # <<>> =>
    LET W == 0..(args.size - 1) IN
    /\ \A i \in 0..(Len(args.nl) - 1) : \A r \in W :
         (i \in Range(result.visited[r])) <=> (r = i % args.size)
    /\ \A r \in W : Len(result.visited[r]) = Cardinality(Range(result.visited[r]))
    /\ \A id \in Comps :
         Cardinality({r \in W : id \in Range(result.pruned[r])}) = 1
    /\ \A r \in W : Len(result.pruned[r]) = Cardinality(Range(result.pruned[r]))
    /\ \A r \in W :
         /\ \A id \in Comps :
              result.ovmd[r][id + 1] = ovmd_of(args.nl, args.p, id)
         /\ \A i \in 1..Len(args.nl) :
              result.ovmd_der[r][i] =
                get_overlap_der(args.p, args.nl[i] \div GMM_m_size,
                                args.nl[i] % GMM_m_size)

\* C22 witness: two workers, a list of three entries of which two belong to
\* one component, nonzero values held before, and the second worker holding
\* the sum of both overlaps and a nonzero derivative in a slot it did not
\* evaluate
C22_Witness ==
  /\ result # <<>>
  /\ args.size = 2
  /\ args.old = 7
  /\ Len(args.nl) = 3
  /\ args.nl[1] \div GMM_m_size = args.nl[2] \div GMM_m_size
  /\ args.nl[1] # args.nl[2]
  /\ result.ovmd[1][args.nl[1] \div GMM_m_size + 1]
       = get_overlap(args.p, args.nl[1] \div GMM_m_size, args.nl[1] % GMM_m_size)
         + get_overlap(args.p, args.nl[2] \div GMM_m_size, args.nl[2] % GMM_m_size)
  /\ result.ovmd_der[1][1] # 0

(***************************************************************************)
(* calculate_sigma from end to end on the sampling worker of one replica   *)
(* (lines 1154 to 1259): regression, score, Monte Carlo move, status       *)
(* record.  args holds REGRESSION, NO_WEIGHTS, WRITE_STRIDE and dsigma_;   *)
(* result holds sigma_, scale_ as a fraction, the score set, the overlaps  *)
(* of the evaluation, the number of records in the status file and the     *)
(* last of them, and which calls the evaluation made.                      *)
(***************************************************************************)
\* s2[i] = sigma_mean_[i]*sigma_mean_[i]+sigma_[i]*sigma_[i] = 1 / inv_s2[i]
S2Of(sig) == [i \in 1..GMM_d_size |-> sigma_mean_[i] * sigma_mean_[i] + sig[i] * sig[i]]

\* ene = 0.5 * kbt_ * sum (scale_*ovmd_[i]-ovdd_[i])^2 * inv_s2[i], with
\* scale_ = sc[1]/sc[2], in 1/1000 of the energy unit
RECURSIVE ScoreSumAt(_, _, _, _)
ScoreSumAt(sc, ovmd, s2, i) ==
  IF i > GMM_d_size THEN 0
  ELSE ((sc[1] * ovmd[i] - sc[2] * ovdd_[i]) * (sc[1] * ovmd[i] - sc[2] * ovdd_[i])
          * 1000) \div (sc[2] * sc[2] * s2[i])
         + ScoreSumAt(sc, ovmd, s2, i + 1)

ScoreAt(sc, ovmd, sig) == (kbt_ * ScoreSumAt(sc, ovmd, S2Of(sig), 1)) \div 2

\* pre_fact/s2 + kbt_*prior_*std::log(s2), pre_fact = 0.5*kbt_*dev*dev
MCeneAt(sc, ovmd, i, s) ==
  LET dn == sc[1] * ovmd[i] - sc[2] * ovdd_[i]
      s2 == sigma_mean_[i] * sigma_mean_[i] + s * s
  IN  ((kbt_ * dn * dn * 1000) \div (2 * s2 * sc[2] * sc[2]))
        + kbt_ * prior_ * Ln1000[s2]

\* the cycle on the neighbors of nGMM (lines 635 to 655)
RECURSIVE MCcycleAt(_, _, _, _, _, _, _, _, _)
MCcycleAt(sc, sig, ovmd, neigh, shift, j, old_ene, new_ene, new_sigma) ==
  IF j > Len(neigh)
  THEN [old_ene |-> old_ene, new_ene |-> new_ene, new_sigma |-> new_sigma]
  ELSE LET i == neigh[j] + 1
           new_s == Reflect(sig[i] + shift, sigma_min_[i], sigma_max_[i])
       IN  MCcycleAt(sc, sig, ovmd, neigh, shift, j + 1,
                     old_ene + MCeneAt(sc, ovmd, i, sig[i]),
                     new_ene + MCeneAt(sc, ovmd, i, new_s),
                     Append(new_sigma, new_s))

\* doMonteCarlo on the sampling worker: sigma_ afterwards
doMonteCarloAt(sc, sig, ovmd, d) ==
  LET c == MCcycleAt(sc, sig, ovmd, MCneigh_[d.nGMM + 1], d.shift, 1, 0, 0, <<>>)
  IN  IF doAccept(c.old_ene, c.new_ene, d.below)
      THEN Commit(sig, MCneigh_[d.nGMM + 1], c.new_sigma)
      ELSE sig

\* a status record taken before the Monte Carlo move of the step
SigmaAtStatusEarly(before, after) == before

\* the sigma_ that the score reads (inv_s2, line 1168) and the one that
\* print_status reads (line 1244, after doMonteCarlo at line 1241)
SigmaAtScore(before, after) == before

SigmaAtStatus(before, after) == after

\* if(step%statusstride_==0) print_status(step)
StatusDue(a) == step % a.write_stride = 0

\* print_status: one more record, MD_time and every sigma_[i] as formatted
print_status(file, t, sig) ==
  [n |-> file.n + 1, last |-> [MD_time |-> t, s |-> print_record(sig)]]

OrderShifts == {0 - dsigma_, 1, dsigma_}

OrderOvmds == {<<1, 1, 1>>, <<2, 2, 2>>, <<3, 0, 1>>}

OrderInit ==
  /\ args \in [nregres : 0..1, no_weights : BOOLEAN, write_stride : 1..2,
               dsigma : {0, dsigma_}]
  /\ result = [sigma_ |-> sigma_fresh, scale_ |-> <<1, 1>>, scoreb |-> 0,
               ovmd |-> <<>>, file |-> [n |-> 0, last |-> <<>>],
               calls |-> <<>>]
  /\ step = 0
  /\ exch \in BOOLEAN
  /\ hphase = "calculate"
  /\ size_ = 1
  /\ NLIdle
  /\ MCIdle
  /\ do_sampling_ = TRUE
  /\ pend = <<>>
  /\ ovmd_ = <<>>
  /\ ov_part = <<>>
  /\ AccIdle

\* what calculate_sigma leaves, given the overlaps ovmd and the draws d
SigmaEvaluation(a, r, ovmd, d) ==
  LET sc == IF RegressionDue(a)
            THEN RegressionCall([no_weights |-> a.no_weights,
                                 s2 |-> S2Of(r.sigma_)], ovmd).scale_
            ELSE r.scale_
      moved == IF MonteCarloDue(a.dsigma)
               THEN doMonteCarloAt(sc, r.sigma_, ovmd, d)
               ELSE r.sigma_
  IN  [sigma_ |-> moved,
       scale_ |-> sc,
       scoreb |-> ScoreAt(sc, ovmd, SigmaAtScore(r.sigma_, moved)),
       ovmd |-> ovmd,
       file |-> IF StatusDue(a)
                THEN print_status(r.file, step, SigmaAtStatus(r.sigma_, moved))
                ELSE r.file,
       calls |-> (IF RegressionDue(a) THEN <<"doRegression">> ELSE <<>>)
                   \o <<"scoreb">>
                   \o (IF MonteCarloDue(a.dsigma) THEN <<"doMonteCarlo">> ELSE <<>>)
                   \o (IF StatusDue(a) THEN <<"print_status">> ELSE <<>>)]

order_evaluate ==
  /\ hphase = "calculate"
  /\ \E ovmd \in OrderOvmds :
       \E d \in [nGMM : Comps, shift : OrderShifts, below : BOOLEAN] :
         result' = SigmaEvaluation(args, result, ovmd, d)
  /\ hphase' = "advance"
  /\ UNCHANGED <<args, step, exch, nl_pos, size_, nl_cutoff_, first_time_, nl_,
                 ovmd_der_, nevals, nl_rebuilt, mcVars, do_sampling_, pend,
                 ovmd_, ov_part, accVars>>

OrderHostAdvance ==
  /\ hphase = "advance"
  /\ step < MaxStep
  /\ step' = step + 1
  /\ exch' \in BOOLEAN
  /\ hphase' = "calculate"
  /\ UNCHANGED <<args, result, nl_pos, size_, nl_cutoff_, first_time_, nl_,
                 ovmd_der_, nevals, nl_rebuilt, mcVars, do_sampling_, pend,
                 ovmd_, ov_part, accVars>>

OrderNext == order_evaluate \/ OrderHostAdvance

SpecOrder == OrderInit /\ [][OrderNext]_vars

\* the score of the claim: half kT times the sum of the squared deviations
\* over s2, with scale sc and the uncertainties sig
ScoreWith(sc, ovmd, sig) ==
  (kbt_ * SumSeq([i \in 1..GMM_d_size |->
             ((sc[1] * ovmd[i] - sc[2] * ovdd_[i])
                * (sc[1] * ovmd[i] - sc[2] * ovdd_[i]) * 1000)
               \div (sc[2] * sc[2] * (sigma_mean_[i] * sigma_mean_[i]
                                        + sig[i] * sig[i]))])) \div 2

\* the parts of C23 on which the code and the claim agree: the score of step
\* t uses the sigma held before the move and the scale of step t; a record is
\* written exactly when t modulo WRITE_STRIDE is 0; sigma moves only when t
\* modulo MC_STRIDE is 0 and t is not an exchange step; the calls are made
\* in the order regression, score, move, record.
OrderKept ==
  /\ result'.scoreb = ScoreWith(result'.scale_, result'.ovmd, result.sigma_)
  /\ result'.file.n = result.file.n + (IF step % args.write_stride = 0 THEN 1 ELSE 0)
  /\ result'.file.n = result.file.n => result'.file = result.file
  /\ (\E k \in DOMAIN result'.calls : result'.calls[k] = "doMonteCarlo")
       => (step % MCstride_ = 0 /\ ~exch)
  /\ result'.sigma_ # result.sigma_ => (step % MCstride_ = 0 /\ ~exch)
  /\ \A k, l \in DOMAIN result'.calls :
       k < l =>
         <<result'.calls[k], result'.calls[l]>> \in
           {<<"doRegression", "scoreb">>, <<"doRegression", "doMonteCarlo">>,
            <<"doRegression", "print_status">>, <<"scoreb", "doMonteCarlo">>,
            <<"scoreb", "print_status">>, <<"doMonteCarlo", "print_status">>}

\* C23 as stated: the order of an evaluation, and a record written at step t
\* holds the sigma vector as it is after the move of step t.
C23_RecordHoldsSigma ==
  [][hphase = "calculate" =>
       /\ OrderKept
       /\ result'.file.n > result.file.n =>
            /\ result'.file.last.MD_time = step
            /\ result'.file.last.s = result'.sigma_]_vars

\* C23 amended: the order of an evaluation, and a record written at step t
\* holds every component of the sigma vector after the move of step t as the
\* format of print_status prints it.
C23_RecordHoldsPrintedSigma ==
  [][hphase = "calculate" =>
       /\ OrderKept
       /\ result'.file.n > result.file.n =>
            /\ result'.file.last.MD_time = step
            /\ Len(result'.file.last.s) = GMM_d_size
            /\ \A i \in 1..GMM_d_size :
                 result'.file.last.s[i] = Fmt(result'.sigma_[i])]_vars

\* C23 witness: at step 2 a regression changed the scale, a move changed
\* sigma, and the record written holds the print of the moved vector, which
\* is not the print of the vector held before
C23_Witness ==
  /\ hphase = "advance"
  /\ step = 2
  /\ result.calls = <<"doRegression", "scoreb", "doMonteCarlo", "print_status">>
  /\ result.scale_ # <<1, 1>>
  /\ result.scoreb > 0
  /\ result.file.n >= 2
  /\ result.file.last.s = print_record(result.sigma_)
  /\ result.file.last.s # print_record(sigma_fresh)
  /\ result.scoreb # ScoreWith(result.scale_, result.ovmd, result.sigma_)

(***************************************************************************)
(* ExchangePatterns::getList (ExchangePatterns.cpp, lines 15 to 28).  args *)
(* holds nrepl; result holds ind (position i of the code is ind[i + 1]),   *)
(* the loop counter i, whether the call has returned and whether a draw    *)
(* was ever thrown away.  A draw of RandU01 is k / DrawDen, 0 <= k <       *)
(* DrawDen.                                                                *)
(***************************************************************************)
MaxRepl == 4

DrawDen == 8

\* ind[i] = random.RandU01()*nrepl: the product converted to int
DrawIndex(k, nrepl) == (k * nrepl) \div DrawDen

\* a test that looks at the entry just before position i only
CollidesWithLast(ind, i) == i > 0 /\ ind[i + 1] = ind[i]

\* for(j = 0; j < i; j++) if(ind[i] == ind[j]) stat = 1
Collides(ind, i) == \E j \in 0..(i - 1) : ind[i + 1] = ind[j + 1]

\* what the caller's array holds before the call
ExchInit ==
  /\ args \in [nrepl : 1..MaxRepl]
  /\ result \in [ind : [1..args.nrepl -> {0 - 1, 0}], i : {0}, returned : {FALSE},
                 redrawn : {FALSE}]
  /\ FnRestIdle

\* one pass of the while loop for position i, with the draw k / DrawDen
getList_pass(k) ==
  /\ ~result.returned
  /\ result.i < args.nrepl
  /\ LET ind == [result.ind EXCEPT ![result.i + 1] = DrawIndex(k, args.nrepl)]
     IN  result' = [ind |-> ind,
                    i |-> IF Collides(ind, result.i) THEN result.i
                          ELSE result.i + 1,
                    returned |-> FALSE,
                    redrawn |-> result.redrawn \/ Collides(ind, result.i)]
  /\ UNCHANGED <<args, fnFrame>>

getList_draw == \E k \in 0..(DrawDen - 1) : getList_pass(k)

\* the for loop ends
getList_return ==
  /\ ~result.returned
  /\ result.i >= args.nrepl
  /\ result' = [result EXCEPT !.returned = TRUE]
  /\ UNCHANGED <<args, fnFrame>>

ExchNext == getList_draw \/ getList_return

\* a pass whose draw is an index still missing
DrawMissing ==
  \E k \in 0..(DrawDen - 1) :
    /\ \A j \in 1..result.i : result.ind[j] # DrawIndex(k, args.nrepl)
    /\ getList_pass(k)

\* the generator yields a still-missing index sooner or later
SpecExch ==
  ExchInit /\ [][ExchNext]_vars /\ WF_vars(DrawMissing) /\ WF_vars(getList_return)

\* C24: when getList returns, ind is a permutation of 0..nrepl-1; the entries
\* below position i are not changed while position i is drawn; and the call
\* returns when the generator yields each still-missing index eventually.
C24_PermutationOnReturn ==
  /\ [](result.returned =>
          /\ \A j \in 1..args.nrepl : result.ind[j] \in 0..(args.nrepl - 1)
          /\ \A j, l \in 1..args.nrepl : j # l => result.ind[j] # result.ind[l])
  /\ [][\A j \in 1..result.i : result'.ind[j] = result.ind[j]]_vars
  /\ <>(result.returned)

\* C24 witness: a call for four replicas has returned after a draw was thrown
\* away, with a list that is not the identity
C24_Witness ==
  /\ result.returned
  /\ args.nrepl = 4
  /\ result.redrawn
  /\ result.ind # <<0, 1, 2, 3>>

====
